---- MODULE Spec2Model ----
(***************************************************************************)
(* The Splide orchestrator (core/Splide/Splide.ts): mount, destroy, the    *)
(* options accessor, refresh, sync, go, add, remove, and the event bus it  *)
(* drives; the components Slides, Clones, Layout and Arrows with the Slide *)
(* handles; merge().  Callbacks that the program leaves to the event loop  *)
(* (the throttled window listener, the end of a transition) wait in the    *)
(* variable tasks and run as steps of their own.                           *)
(*                                                                         *)
(* The program is single threaded but re-entrant: a component hook or an   *)
(* event handler may call back into the instance while mount(), destroy()  *)
(* or an emit is still on the call stack.  The model therefore keeps the   *)
(* call stack explicitly (variable stack) and runs one statement group of  *)
(* the frame on top per step.  The log is a history variable: it records   *)
(* calls, returns, component instantiations, hook invocations and emits in *)
(* program order, and the properties are stated over it.                   *)
(***************************************************************************)
EXTENDS Integers, Sequences, FiniteSets, TLC

VARIABLES
  state,         \* Splide.state, one of the STATES numbers
  Components,    \* Splide.Components: the registry, entries in key insertion order
  _Extensions,   \* Splide._Extensions: keys of the stored extension factories
  _Transition,   \* Splide._Transition: the stored transition factory
  _options,      \* Splide._options
  splides,       \* Splide.splides: the sync targets
  handlers,      \* the EventBus registrations, in invocation order
  stack,         \* the call stack, innermost frame last
  log,           \* history of calls, hooks and emits
  nCalls,        \* number of API calls made so far (call ids)
  index,         \* Splide.index: the active slide index (Controller)
  realCount,     \* number of slide elements the author put in the list
  listWidth,     \* rect( list ).width = rect( track ).width, in px
  classes,       \* the classes and status attributes of every slide element, clones included
  instances,     \* the private variables of the component closures, per mount() call
  list,          \* the slide elements in document order, clones included
  slideObjects,  \* every Slide handle created so far; its position is its id
  styles,        \* the style rules Layout wrote last: slide width, slide height, track height
  tasks,         \* the callbacks waiting in the event loop: throttled resizes, transition ends
  mObject,       \* merge(): the parameter object, mutated in place
  mSource,       \* merge(): the parameter source
  mWas,          \* merge(): the object as it was when merge() was called
  mDone          \* merge(): whether merge() has returned

mergeVars == <<mObject, mSource, mWas, mDone>>

sliderVars == <<index, realCount, listWidth, classes, instances, list, slideObjects,
               styles, tasks>>

vars == <<state, Components, _Extensions, _Transition, _options, splides,
          handlers, stack, log, nCalls, sliderVars, mergeVars>>

\* ------------------------------------------------------------------ bounds

MaxCalls == 3

\* The call stack is followed to this depth: a step that would push a frame
\* beyond it is not taken.
MaxDepth == 10

\* add() is not called on a slider of so many slides.
MaxSlides == 3

\* Calls made on a slider whose mount() was aborted.
RecoveryCalls == 4

\* --------------------------------------------------------------- constants

CREATED == 1
MOUNTED == 2
IDLE == 3
MOVING == 4
DRAGGING == 5
DESTROYED == 6

STATES == {CREATED, MOUNTED, IDLE, MOVING, DRAGGING, DESTROYED}

SLIDE == "slide"
LOOP == "loop"
FADE == "fade"

LTR == "ltr"
TTB == "ttb"

CLASS_ACTIVE == "is-active"
CLASS_VISIBLE == "is-visible"
CLASS_PREV == "is-prev"
CLASS_NEXT == "is-next"
CLASS_CLONE == "splide__slide--clone"

ARIA_HIDDEN == "aria-hidden"

\* The attributes of a slide element that the model keeps, next to its
\* classes, in the element's entry of `classes`.
ALL_ATTRIBUTES == {ARIA_HIDDEN}

STATUS_CLASSES == {CLASS_ACTIVE, CLASS_VISIBLE, CLASS_PREV, CLASS_NEXT}

DEFAULT_EVENT_PRIORITY == 10
DEFAULT_USER_EVENT_PRIORITY == 20

EVENT_MOUNTED == "mounted"
EVENT_READY == "ready"
EVENT_DESTROY == "destroy"
EVENT_REFRESH == "refresh"
EVENT_UPDATED == "updated"
EVENT_RESIZE == "resize"
EVENT_RESIZED == "resized"
EVENT_MOVE == "move"
EVENT_MOVED == "moved"
EVENT_REPOSITIONED == "repositioned"
EVENT_SHIFTED == "shifted"
EVENT_SCROLLED == "scrolled"
EVENT_ARROWS_MOUNTED == "arrows:mounted"
EVENT_ARROWS_UPDATED == "arrows:updated"
EVENT_ACTIVE == "active"
EVENT_INACTIVE == "inactive"
EVENT_VISIBLE == "visible"
EVENT_HIDDEN == "hidden"
EVENT_NAVIGATION_MOUNTED == "navigation:mounted"

\* The DOM event that Layout binds to the window.
WINDOW_RESIZE == "window:resize"

\* The default options, with the options the components read that have no
\* default: an unset number is 0, an unset string is "", an unset flag FALSE.
DEFAULTS ==
  [type |-> SLIDE, perPage |-> 1, cloneStatus |-> TRUE, drag |-> TRUE,
   direction |-> LTR, clones |-> 0, flickMaxPages |-> 0, fixedWidth |-> 0,
   autoWidth |-> FALSE, height |-> "", heightRatio |-> 0, arrows |-> FALSE,
   updateOnMove |-> FALSE]

\* A style rule for the extent of a slide: none written, a length in px, or
\* calc( 100% / perPage ) of the list.
NoRule == [k |-> "none", v |-> 0]

Px(n) == [k |-> "px", v |-> n]

Calc(perPage) == [k |-> "calc", v |-> perPage]

\* A length that is neither: the height option as it is given.
Css(s) == [k |-> "css", v |-> 0, s |-> s]

\* Before Layout has written a rule.
NoStyles == [width |-> NoRule, height |-> NoRule, track |-> ""]

\* The private variables of the closures one mount() call creates:
\* the Slide handles of Slides, clones and cloneCount of Clones, vertical of
\* Layout, and of Arrows: prev (the arrow elements exist; the markup has none),
\* created (the component made them) and arrows (arrows.prev is set).
NewInstance ==
  [Slides |-> <<>>, clones |-> <<>>, cloneCount |-> 0, vertical |-> FALSE,
   prev |-> FALSE, created |-> FALSE, arrows |-> FALSE]

\* ----------------------------------------------------------------- helpers

Reverse(s) == [i \in 1..Len(s) |-> s[Len(s) + 1 - i]]

Range(s) == {s[i] : i \in 1..Len(s)}

\* Object.keys of the registry: insertion order
Keys(reg) == [i \in 1..Len(reg) |-> reg[i].key]

HasKey(reg, k) == \E i \in 1..Len(reg) : reg[i].key = k

Lookup(reg, k) == reg[CHOOSE i \in 1..Len(reg) : reg[i].key = k]

\* Components[ key ] = component: an existing key keeps its position
Store(reg, e) ==
  IF HasKey(reg, e.key)
  THEN [i \in 1..Len(reg) |-> IF reg[i].key = e.key THEN e ELSE reg[i]]
  ELSE Append(reg, e)

\* forOwn( object, iteratee, right ): the order in which the own keys are visited
forOwn(keys, right) == IF right THEN Reverse(keys) ELSE keys

\* JavaScript values.  A primitive, an array and a plain object are told
\* apart by their tag k; arrays and objects carry an identity (id, 0 for one
\* that the call itself creates), and an array is an object too: besides its
\* items it has own properties f.
NoProps == [key \in {} |-> key]

Val(v) == [k |-> "val", v |-> v]

Arr(id, items) == [k |-> "arr", id |-> id, items |-> items, f |-> NoProps]

Obj(id, f) == [k |-> "obj", id |-> id, f |-> f]

\* utils/type: isArray( subject ), isObject( subject ) (typeof 'object', not null)
isArray(subject) == subject.k = "arr"

isObject(subject) == subject.k \in {"arr", "obj"}

\* Array.prototype.slice(): a new array with the same items
slice(value) == Arr(0, value.items)

\* Mutant: an array is assigned, not copied.
mergeSharingArrays(object, source) ==
  [object EXCEPT !.f =
     [key \in DOMAIN object.f \cup DOMAIN source.f |->
        IF key \in DOMAIN source.f THEN source.f[key] ELSE object.f[key]]]

\* merge( object, source ): every own key of source is written to object,
\* which is returned:
\*   isArray( value )  -> object[ key ] = value.slice()
\*   isObject( value ) -> object[ key ] = merge( isObject( object[ key ] ) ? object[ key ] : {}, value )
\*   otherwise         -> object[ key ] = value
RECURSIVE merge(_, _)
merge(object, source) ==
  [object EXCEPT !.f =
     [key \in DOMAIN object.f \cup DOMAIN source.f |->
        IF key \notin DOMAIN source.f THEN object.f[key]
        ELSE LET value == source.f[key]
             IN IF isArray(value) THEN slice(value)
                ELSE IF isObject(value)
                     THEN merge(IF key \in DOMAIN object.f /\ isObject(object.f[key])
                                THEN object.f[key] ELSE Obj(0, NoProps),
                                value)
                     ELSE value]]

\* The options objects of the orchestrator hold primitives only: they are kept
\* as records of the bare values and are wrapped for merge().
Wrap(rec) == Obj(0, [key \in DOMAIN rec |-> Val(rec[key])])

Unwrap(object) == [key \in DOMAIN object.f |-> object.f[key].v]

mergeOptions(object, source) == Unwrap(merge(Wrap(object), Wrap(source)))

\* ------------------------------------------------------- component factories

\* The built-in component constructors, in the order of their collection.
ComponentConstructors == <<"Slides", "Clones", "Layout", "Arrows">>

ExtensionKey == "Ext"
TransitionKey == "Transition"

\* The hooks each component object exposes (setup, mount, destroy are optional).
Hooks(key) ==
  CASE key = "Slides" -> {"mount", "destroy"}
    [] key = "Clones" -> {"mount", "destroy"}
    [] key = "Layout" -> {"mount"}
    [] key = "Arrows" -> {"mount", "destroy"}
    [] key = TransitionKey -> {"mount"}
    [] OTHER -> {"setup", "mount", "destroy"}

\* A user supplied hook or handler does nothing ("none") or makes one call
\* back into the instance ("mount", "destroy", "options").
\* The hooks of the user supplied extension are arbitrary; the built-in
\* components never call back into the orchestrator's lifecycle operations.
HookScripts(key) ==
  IF key = ExtensionKey THEN {"none", "mount", "destroy", "options"} ELSE {"none"}

\* ------------------------------------------------------------- event bus

\* EventBus.on: handlers are kept in invocation order, higher priority first,
\* registration order among equal priorities.
on(hs, h) ==
  LET before == SelectSeq(hs, LAMBDA x : x.priority >= h.priority)
      after  == SelectSeq(hs, LAMBDA x : x.priority < h.priority)
  IN before \o <<h>> \o after

\* EventBus.off( events ) without a key: the handlers of the event that were
\* registered without a key, those of Splide.on, are removed; a handler with a
\* key belongs to its owner and stays.
off(hs, ev) == SelectSeq(hs, LAMBDA x : ~(x.event = ev /\ x.key = "null"))

\* EventBus.emit takes a snapshot of the handlers registered for the event.
Snapshot(hs, ev) == SelectSeq(hs, LAMBDA x : x.event = ev)

\* EventBus.destroy
BusDestroy(hs) == <<>>

\* ------------------------------------------------------------- the world

\* The whole program state as one record, so that an operation is a function
\* from the state before to the state after.
World ==
  [state |-> state, Components |-> Components, _Extensions |-> _Extensions,
   _Transition |-> _Transition, _options |-> _options, splides |-> splides,
   handlers |-> handlers, stack |-> stack, log |-> log, nCalls |-> nCalls,
   index |-> index, realCount |-> realCount, listWidth |-> listWidth,
   classes |-> classes, instances |-> instances, list |-> list,
   slideObjects |-> slideObjects, styles |-> styles, tasks |-> tasks]

Becomes(w) ==
  /\ Len(w.stack) <= MaxDepth
  /\ state' = w.state
  /\ Components' = w.Components
  /\ _Extensions' = w._Extensions
  /\ _Transition' = w._Transition
  /\ _options' = w._options
  /\ splides' = w.splides
  /\ handlers' = w.handlers
  /\ stack' = w.stack
  /\ log' = w.log
  /\ nCalls' = w.nCalls
  /\ index' = w.index
  /\ realCount' = w.realCount
  /\ listWidth' = w.listWidth
  /\ classes' = w.classes
  /\ instances' = w.instances
  /\ list' = w.list
  /\ slideObjects' = w.slideObjects
  /\ styles' = w.styles
  /\ tasks' = w.tasks
  /\ UNCHANGED mergeVars

Logged(w, e) == [w EXCEPT !.log = Append(@, e)]

\* A call gets the next call id.
Called(w) == [w EXCEPT !.nCalls = @ + 1]

\* An uncaught exception: the call stack is unwound, nothing is undone.
Throw(w, id, message) ==
  [Logged(w, [t |-> "throw", id |-> id, message |-> message,
              direction |-> w._options.direction, height |-> w._options.height,
              heightRatio |-> w._options.heightRatio, width |-> w.listWidth])
     EXCEPT !.stack = <<>>]

\* EventBus.emit( event ) issued by call id: the snapshot is taken, and the
\* handlers run one per step from an emit frame (no frame when none is registered).
\* arg is the Slide handle an event is about (its id), 0 for the other events.
emitWith(w, base, id, ev, arg) ==
  LET hs == Snapshot(w.handlers, ev)
      w1 == Logged(w, [t |-> "emit", id |-> id, ev |-> ev, n |-> Len(hs), st |-> w.state,
                       arg |-> arg])
  IN [w1 EXCEPT !.stack =
        IF hs = <<>> THEN base
        ELSE Append(base, [op |-> "emit", id |-> id, ev |-> ev, hs |-> hs,
                           i |-> 1, born |-> Len(w1.log)])]

emit(w, base, id, ev) == emitWith(w, base, id, ev, 0)

\* Mutant: the guard also lets an idle slider through.
MountGuardLax(st) == st \in {CREATED, DESTROYED, IDLE}

\* State.is( [ CREATED, DESTROYED ] ): the guard of mount()
MountGuard(st) == st \in {CREATED, DESTROYED}

\* Transition || this._Transition || ( this.is( FADE ) ? Fade : Slide )
TransitionOf(T, stored, opts) ==
  IF T /= "undefined" THEN T
  ELSE IF stored /= "undefined" THEN stored
  ELSE IF opts.type = FADE THEN "Fade" ELSE "Slide"

\* Extensions || this._Extensions
ExtensionsOf(E, stored) == IF E.given THEN E.keys ELSE stored

\* assign( {}, ComponentConstructors, this._Extensions, { Transition } )
Constructors(ext) ==
  ComponentConstructors
    \o SelectSeq(ext, LAMBDA k : k \notin Range(ComponentConstructors))
    \o <<TransitionKey>>

\* Splide.mount( Extensions, Transition ), up to the first loop.  base is the
\* caller's stack.  A refused call throws 'Already mounted!': nothing is
\* changed, and the exception leaves every caller on the stack.
mount(w, base, E, T) ==
  LET id == w.nCalls + 1
      w0 == Called(w)
      entry == [t |-> "call", id |-> id, op |-> "mount", st |-> w.state,
                ok |-> MountGuard(w.state), keys |-> <<>>, T |-> T,
                type |-> w._options.type]
  IN IF ~MountGuard(w.state)
     THEN Throw(Logged(w0, entry), id, "Already mounted!")
     ELSE LET tr  == TransitionOf(T, w._Transition, w._options)
              ext == ExtensionsOf(E, w._Extensions)
          IN [Logged(w0, [entry EXCEPT !.keys = Constructors(ext)]) EXCEPT
                !.state = CREATED,
                !.instances = (id :> NewInstance) @@ @,
                !._Transition = tr,
                !._Extensions = ext,
                !.stack = Append(base, [op |-> "mount", id |-> id, pc |-> "construct",
                                        i |-> 1, keys |-> forOwn(Constructors(ext), FALSE)])]

\* Mutant: the postponed destruction waits for `mounted` instead of `ready`.
DeferredDestroyOnMounted(w, completely) ==
  [event |-> EVENT_MOUNTED, cb |-> "deferredDestroy", c |-> completely,
   key |-> "splide", priority |-> DEFAULT_EVENT_PRIORITY, at |-> Len(w.log),
   gen |-> 0, hid |-> 0]

\* The handler that destroy() registers while the state is CREATED:
\* event.on( EVENT_READY, this.destroy.bind( this, completely ), this )
DeferredDestroy(w, completely) ==
  [event |-> EVENT_READY, cb |-> "deferredDestroy", c |-> completely,
   key |-> "splide", priority |-> DEFAULT_EVENT_PRIORITY, at |-> Len(w.log),
   gen |-> 0, hid |-> 0]

\* Mutant: destroy() visits the components in registration order.
DestroyOrderForward(reg) == forOwn(Keys(reg), FALSE)

\* The order in which destroy() visits the components:
\* forOwn( this._Components, ..., true )
DestroyOrder(reg) == forOwn(Keys(reg), TRUE)

\* Splide.destroy( completely ), up to the loop over the components.
destroy(w, base, completely) ==
  LET id == w.nCalls + 1
      w0 == Called(w)
      entry == [t |-> "call", id |-> id, op |-> "destroy", st |-> w.state,
                ok |-> TRUE, c |-> completely, splides |-> w.splides]
      w1 == Logged(w0, entry)
  IN IF w.state = CREATED
     THEN [Logged(w1, [t |-> "ret", id |-> id, op |-> "destroy", st |-> w1.state,
                       splides |-> w1.splides])
             EXCEPT !.handlers = on(w1.handlers, DeferredDestroy(w1, completely)),
                    !.stack = base]
     ELSE [w1 EXCEPT
             !.stack = Append(base, [op |-> "destroy", id |-> id, pc |-> "hooks", i |-> 1,
                                     keys |-> DestroyOrder(w.Components),
                                     c |-> completely])]

\* Mutant: the teardown leaves the bus registrations in place.
TeardownKeepBus(w, f) ==
  LET w1 == Logged(w, [t |-> "clear", id |-> f.id, splides |-> w.splides])
      w2 == [w1 EXCEPT !.splides = IF f.c THEN <<>> ELSE @]
      w3 == [w2 EXCEPT !.state = DESTROYED]
  IN Logged(w3, [t |-> "ret", id |-> f.id, op |-> "destroy", st |-> w3.state,
                 splides |-> w3.splides])

\* Mutant: the teardown empties the sync targets whatever `completely` is.
TeardownAlwaysEmpty(w, f) ==
  LET w1 == Logged([w EXCEPT !.handlers = BusDestroy(@)],
                   [t |-> "clear", id |-> f.id, splides |-> w.splides])
      w2 == [w1 EXCEPT !.splides = <<>>]
      w3 == [w2 EXCEPT !.state = DESTROYED]
  IN Logged(w3, [t |-> "ret", id |-> f.id, op |-> "destroy", st |-> w3.state,
                 splides |-> w3.splides])

\* The end of the teardown: event.destroy(); completely && empty( this.splides );
\* state.set( DESTROYED )
Teardown(w, f) ==
  LET w1 == Logged([w EXCEPT !.handlers = BusDestroy(@)],
                   [t |-> "clear", id |-> f.id, splides |-> w.splides])
      w2 == [w1 EXCEPT !.splides = IF f.c THEN <<>> ELSE @]
      w3 == [w2 EXCEPT !.state = DESTROYED]
  IN Logged(w3, [t |-> "ret", id |-> f.id, op |-> "destroy", st |-> w3.state,
                 splides |-> w3.splides])

\* Mutant: the setter emits `updated` in every state.
optionsAlwaysEmit(w, base, patch) ==
  LET id == w.nCalls + 1
      w0 == Called(w)
      w1 == [w0 EXCEPT !._options = mergeOptions(@, patch), !.stack = base]
      w2 == Logged(w1, [t |-> "call", id |-> id, op |-> "options", st |-> w.state,
                        ok |-> TRUE, arg |-> patch, was |-> w._options,
                        now |-> w1._options])
  IN emit(w2, base, id, EVENT_UPDATED)

\* set options( options ): merge, then emit `updated` unless the state is CREATED
options(w, base, patch) ==
  LET id == w.nCalls + 1
      w0 == Called(w)
      w1 == [w0 EXCEPT !._options = mergeOptions(@, patch), !.stack = base]
      w2 == Logged(w1, [t |-> "call", id |-> id, op |-> "options", st |-> w.state,
                        ok |-> TRUE, arg |-> patch, was |-> w._options,
                        now |-> w1._options])
  IN IF w2.state /= CREATED THEN emit(w2, base, id, EVENT_UPDATED) ELSE w2

\* Splide.refresh(): this.event.emit( EVENT_REFRESH ), then the return
refresh(w, base) ==
  LET id == w.nCalls + 1
      w1 == Logged([Called(w) EXCEPT !.stack = base],
                   [t |-> "call", id |-> id, op |-> "refresh", st |-> w.state, ok |-> TRUE])
  IN emit(w1, Append(base, [op |-> "refresh", id |-> id]), id, EVENT_REFRESH)

\* The options a hook or handler assigns when its script is "options".
HookPatch == [perPage |-> 2]

\* A hook or a handler running its script: at most one call into the instance.
\* The scripts that call into the lifecycle stop at MaxCalls calls.
Run(w, base, s) ==
  IF s = "refresh" THEN refresh(w, base)
  ELSE IF s = "none" \/ w.nCalls >= MaxCalls THEN [w EXCEPT !.stack = base]
  ELSE CASE s = "mount"   -> mount(w, base, [given |-> FALSE, keys |-> <<>>], "undefined")
         [] s = "destroy" -> destroy(w, base, TRUE)
         [] s = "options" -> options(w, base, HookPatch)

\* ------------------------------------------------ the built-in components

\* The private variables of the closures created by mount() call gen.
Inst(w, gen) == w.instances[gen]

\* A frame for the rest of a component function, run when the emit it has
\* issued is over.
Cont(cb, id, gen, hid) == [op |-> "cont", cb |-> cb, id |-> id, gen |-> gen, hid |-> hid]

\* EventInterface.on( event, callback ): a registration of a component (gen)
\* or of a Slide handle (hid) at the default priority.
Listener(w, ev, cb, gen, hid) ==
  [event |-> ev, cb |-> cb, c |-> TRUE, key |-> "component",
   priority |-> DEFAULT_EVENT_PRIORITY, at |-> Len(w.log), gen |-> gen, hid |-> hid]

RECURSIVE OnAll(_, _)
OnAll(hs, ls) == IF ls = <<>> THEN hs ELSE OnAll(on(hs, Head(ls)), Tail(ls))

\* EventInterface.on( events, callback ) for an array of events
Listen(w, evs, cb, gen, hid) ==
  [w EXCEPT !.handlers = OnAll(@, [i \in 1..Len(evs) |-> Listener(w, evs[i], cb, gen, hid)])]

\* ---- Slide( Splide, index, slideIndex, slide )

Handle(hid, gen, idx, slideIndex, elm) ==
  [hid |-> hid, gen |-> gen, index |-> idx, slideIndex |-> slideIndex, slide |-> elm,
   destroyed |-> FALSE]

\* const isClone = slideIndex > -1
isClone(h) == h.slideIndex > -1

\* on( [ EVENT_REFRESH, EVENT_REPOSITIONED, EVENT_SHIFTED, EVENT_MOVED, EVENT_SCROLLED ], update )
SlideUpdateEvents ==
  <<EVENT_REFRESH, EVENT_REPOSITIONED, EVENT_SHIFTED, EVENT_MOVED, EVENT_SCROLLED>>

\* Slide.mount() -> listen():
\*   on( [ ... ], update ); on( EVENT_NAVIGATION_MOUNTED, initNavigation );
\*   if ( updateOnMove ) { on( EVENT_MOVE, onMove ) }
SlideMount(w, gen, hid) ==
  LET w1 == Listen(Listen(w, SlideUpdateEvents, "Slide.update", gen, hid),
                   <<EVENT_NAVIGATION_MOUNTED>>, "Slide.initNavigation", gen, hid)
  IN IF w._options.updateOnMove
     THEN Listen(w1, <<EVENT_MOVE>>, "Slide.onMove", gen, hid)
     ELSE w1

\* Slide.destroy(): destroyed = true; destroyEvents(); removeClass( slide, STATUS_CLASSES )
SlideDestroy(w, hid) ==
  [w EXCEPT !.slideObjects[hid].destroyed = TRUE,
            !.handlers = SelectSeq(@, LAMBDA x : x.hid /= hid),
            !.classes[w.slideObjects[hid].slide] = (@ \ STATUS_CLASSES) \ ALL_ATTRIBUTES]

\* curr === index || ( options.cloneStatus && curr === slideIndex )
isActive(w, h) == w.index = h.index \/ (w._options.cloneStatus /\ w.index = h.slideIndex)

\* rect( track ) has no extent along the direction of the slider: the list
\* has no width, or the track of a vertical slider has been given no height.
TrackIsEmpty(w) ==
  IF w._options.direction = TTB THEN w.styles.track = "" ELSE w.listWidth = 0

\* Splide.is( FADE ) ? isActive() :
\*   floor( trackRect[ left ] ) <= ceil( slideRect[ left ] )
\*     && floor( slideRect[ right ] ) <= ceil( trackRect[ right ] )
\* The rectangles are those of slides laid one after the other from the
\* active one at the start of the track, each with the extent of the rule
\* Layout wrote last (not the one the options of now would give): so many
\* px, or a perPage-th of the track.  A slide without a rule has no extent,
\* and in an empty track every calc() rectangle is empty and lies within the
\* track's.
isVisible(w, h) ==
  LET d    == h.index - w.index
      rule == IF w._options.direction = TTB THEN w.styles.height ELSE w.styles.width
  IN IF w._options.type = FADE THEN isActive(w, h)
     ELSE IF rule.k = "none" THEN TRUE
     ELSE IF rule.k = "px" THEN 0 <= d /\ (d + 1) * rule.v <= w.listWidth
     ELSE IF rule.k = "css" THEN d = 0
     ELSE TrackIsEmpty(w) \/ (0 <= d /\ d + 1 <= rule.v)

hasClass(w, elm, class) == class \in w.classes[elm]

\* toggleClass( elm, class, add )
toggleClass(w, elm, class, add) ==
  [w EXCEPT !.classes[elm] = IF add THEN @ \cup {class} ELSE @ \ {class}]

\* The class toggled and the event emitted by updateActivity / updateVisibility:
\*   if ( flag !== hasClass( slide, class ) ) { toggleClass( slide, class, flag ); emit( ..., self ) }
updateStatus(w, base, id, hid, class, flag, evOn, evOff) ==
  LET elm == w.slideObjects[hid].slide
  IN IF flag /= hasClass(w, elm, class)
     THEN emitWith(toggleClass(w, elm, class, flag), base, id,
                   IF flag THEN evOn ELSE evOff, hid)
     ELSE [w EXCEPT !.stack = base]

\* Mutant: the event is emitted whether or not the class changes.
updateActivityAlways(w, base, id, hid, active) ==
  emitWith(toggleClass(w, w.slideObjects[hid].slide, CLASS_ACTIVE, active), base, id,
           IF active THEN EVENT_ACTIVE ELSE EVENT_INACTIVE, hid)

updateActivity(w, base, id, hid, active) ==
  updateStatus(w, base, id, hid, CLASS_ACTIVE, active, EVENT_ACTIVE, EVENT_INACTIVE)

\* setAttribute( elm, attr, value ): a value of null removes the attribute.
setAttribute(w, elm, attr, value) ==
  [w EXCEPT !.classes[elm] = IF value THEN @ \cup {attr} ELSE @ \ {attr}]

\* Mutant: every slide that is not visible is hidden.
isHiddenWheneverInvisible(w, h, visible) == ~visible

\* hidden = ! visible && ( ! isActive() || isClone )
isHidden(w, h, visible) == ~visible /\ (~isActive(w, h) \/ isClone(h))

updateVisibility(w, base, id, hid, visible) ==
  LET h  == w.slideObjects[hid]
      w1 == setAttribute(w, h.slide, ARIA_HIDDEN, isHidden(w, h, visible))
  IN updateStatus(w1, base, id, hid, CLASS_VISIBLE, visible, EVENT_VISIBLE, EVENT_HIDDEN)

\* toggleClass( slide, CLASS_PREV, index === currIndex - 1 );
\* toggleClass( slide, CLASS_NEXT, index === currIndex + 1 )
toggleNeighbours(w, hid, currIndex) ==
  LET h == w.slideObjects[hid]
  IN toggleClass(toggleClass(w, h.slide, CLASS_PREV, h.index = currIndex - 1),
                 h.slide, CLASS_NEXT, h.index = currIndex + 1)

\* The frame for the last two statements of update(), with the index that
\* update() read when it began.
ToggleCont(id, gen, hid, currIndex) ==
  [op |-> "cont", cb |-> "Slide.toggleNeighbours", id |-> id, gen |-> gen, hid |-> hid,
   curr |-> currIndex]

\* Mutant: update() does not look at the destroyed flag.
SlideUpdateUnguarded(w, base, id, hid) ==
  LET h    == w.slideObjects[hid]
      last == Append(base, ToggleCont(id, h.gen, hid, w.index))
      rest == Append(last, Cont("Slide.updateVisibility", id, h.gen, hid))
      w0   == Logged(w, [t |-> "update", id |-> id, hid |-> hid,
                         active |-> isActive(w, h), visible |-> isVisible(w, h)])
      w1   == updateActivity(w0, rest, id, hid, isActive(w, h))
      w2   == updateVisibility(w1, last, id, hid, isVisible(w1, h))
  IN IF w1.stack /= rest THEN w1
     ELSE IF w2.stack /= last THEN w2
     ELSE [toggleNeighbours(w2, hid, w.index) EXCEPT !.stack = base]

\* Slide.update(): nothing once destroyed; else updateActivity( isActive() ),
\* then updateVisibility( isVisible() ) when the handlers of the first emit
\* have returned, then the two classes of the neighbours of the active slide
\* when those of the second have.
SlideUpdate(w, base, id, hid) ==
  LET h == w.slideObjects[hid]
  IN IF h.destroyed THEN [w EXCEPT !.stack = base]
     ELSE LET last == Append(base, ToggleCont(id, h.gen, hid, w.index))
              rest == Append(last, Cont("Slide.updateVisibility", id, h.gen, hid))
              w0   == Logged(w, [t |-> "update", id |-> id, hid |-> hid,
                                 active |-> isActive(w, h), visible |-> isVisible(w, h)])
              w1   == updateActivity(w0, rest, id, hid, isActive(w, h))
              w2   == updateVisibility(w1, last, id, hid, isVisible(w1, h))
          IN IF w1.stack /= rest THEN w1
             ELSE IF w2.stack /= last THEN w2
             ELSE [toggleNeighbours(w2, hid, w.index) EXCEPT !.stack = base]

\* Slide.onMove(): if ( ! destroyed ) { update() }
onMove(w, base, id, hid) ==
  IF w.slideObjects[hid].destroyed THEN [w EXCEPT !.stack = base]
  ELSE SlideUpdate(w, base, id, hid)

\* Slide.initNavigation(): updateActivity( isActive() )
SlideInitNavigation(w, base, id, hid) ==
  updateActivity(w, base, id, hid, isActive(w, w.slideObjects[hid]))

\* ---- Slides, the registry of the handles

\* Slides.register( slide, index, slideIndex ): the handle is created and
\* mounted, and the registry is kept in the order of the placement indices.
register(w, gen, elm, idx, slideIndex) ==
  LET hid == Len(w.slideObjects) + 1
      w1  == [w EXCEPT !.slideObjects = Append(@, Handle(hid, gen, idx, slideIndex, elm))]
      S   == Inst(w, gen).Slides
  IN [SlideMount(w1, gen, hid) EXCEPT
        !.instances[gen].Slides =
           SelectSeq(S, LAMBDA x : w.slideObjects[x].index <= idx) \o <<hid>>
             \o SelectSeq(S, LAMBDA x : w.slideObjects[x].index > idx)]

\* before( clone, slides[ 0 ].slide ) / append( list, clone )
InsertBefore(l, elm, ref) ==
  LET p == CHOOSE i \in 1..Len(l) : l[i] = ref
  IN SubSeq(l, 1, p - 1) \o <<elm>> \o SubSeq(l, p, Len(l))

\* Elements.slides: the slide elements of the list that are not clones
Reals(l) == SelectSeq(l, LAMBDA elm : elm >= 0)

\* A handle for every slide element, from the one at i on, that has none.
RECURSIVE RegisterSlides(_, _, _)
RegisterSlides(w, gen, i) ==
  IF i >= Len(Reals(w.list)) THEN w
  ELSE IF \E x \in Range(Inst(w, gen).Slides) :
            ~isClone(w.slideObjects[x]) /\ w.slideObjects[x].index = i
       THEN RegisterSlides(w, gen, i + 1)
       ELSE RegisterSlides(register(w, gen, Reals(w.list)[i + 1], i, -1), gen, i + 1)

RECURSIVE DestroySlides(_, _)
DestroySlides(w, hids) ==
  IF hids = <<>> THEN w ELSE DestroySlides(SlideDestroy(w, Head(hids)), Tail(hids))

\* Slides.mount(): a handle for every slide element, then the refresh listener.
SlidesMount(w, gen) ==
  Listen(RegisterSlides(w, gen, 0), <<EVENT_REFRESH>>, "Slides.refresh", gen, 0)

\* On refresh the clone handles are destroyed as a batch; the real handles
\* stay, none is destroyed before the teardown; the registry keeps those whose
\* slide element is in the list, and a slide element that has no handle yet
\* (add() has put it in the list) gets its one handle.
SlidesRefresh(w, gen) ==
  LET S  == Inst(w, gen).Slides
      w1 == [DestroySlides(w, SelectSeq(S, LAMBDA x : isClone(w.slideObjects[x]))) EXCEPT
               !.instances[gen].Slides =
                  SelectSeq(S, LAMBDA x : /\ ~isClone(w.slideObjects[x])
                                          /\ w.slideObjects[x].slide \in Range(w.list))]
  IN RegisterSlides(w1, gen, 0)

\* Slides.add( slide, index ): ref = slides[ index ];
\* ref ? before( slide, ref ) : append( list, slide ); emit( EVENT_REFRESH ).
\* The index is `at`; -1 stands for none.
SlidesAdd(w, base, id, at) ==
  LET slide == Cardinality({e \in DOMAIN w.classes : e >= 0})
      reals == Reals(w.list)
      w1    == [w EXCEPT
                  !.list = IF at \in 0..(Len(reals) - 1)
                           THEN InsertBefore(@, slide, reals[at + 1])
                           ELSE Append(@, slide),
                  !.classes = (slide :> {}) @@ @,
                  !.realCount = @ + 1]
  IN emit(w1, base, id, EVENT_REFRESH)

\* Slides.remove( matcher ): removeNode( filter( matcher ).map( Slide => Slide.slide ) );
\* emit( EVENT_REFRESH ).  The matcher is an index.  The handle of a removed
\* slide leaves the registry; it is not destroyed.
SlidesRemove(w, base, id, gen, matcher) ==
  LET S    == Inst(w, gen).Slides
      gone == {w.slideObjects[x].slide :
                 x \in {y \in Range(S) : w.slideObjects[y].index = matcher}}
      l    == SelectSeq(w.list, LAMBDA elm : elm \notin gone)
  IN emit([w EXCEPT !.list = l, !.realCount = Len(Reals(l)),
                    !.instances[gen].Slides =
                       SelectSeq(S, LAMBDA x : w.slideObjects[x].slide \notin gone)],
          base, id, EVENT_REFRESH)

\* Slides.destroy(): every handle is destroyed and the registry emptied.
SlidesDestroy(w, gen) ==
  [DestroySlides(w, Inst(w, gen).Slides) EXCEPT !.instances[gen].Slides = <<>>]

\* Slides.getLength( excludeClones )
getLength(w, gen, excludeClones) ==
  Len(SelectSeq(Inst(w, gen).Slides,
                LAMBDA x : ~excludeClones \/ ~isClone(w.slideObjects[x])))

\* ---- Clones

\* ceil( a / b ) for a >= 0, b > 0
ceil(a, b) == (a + b - 1) \div b

\* Mutant: the clones are doubled whatever the drag and flick options say.
computeCloneCountDoubled(w) ==
  LET o == w._options
  IN IF o.type /= LOOP THEN 0
     ELSE IF o.clones /= 0 THEN o.clones
     ELSE LET fixedSize  == IF o.direction = TTB THEN 0 ELSE o.fixedWidth
              fixedCount == IF fixedSize = 0 THEN 0 ELSE ceil(w.listWidth, fixedSize)
              baseCount  == IF fixedCount /= 0 THEN fixedCount
                            ELSE IF o.direction /= TTB /\ o.autoWidth /\ w.realCount /= 0
                                 THEN w.realCount
                                 ELSE o.perPage
          IN baseCount * 2

\* Clones.computeCloneCount().  resolve() maps fixedWidth and autoWidth to
\* fixedHeight and autoHeight in the vertical direction; those are not set.
computeCloneCount(w) ==
  LET o == w._options
  IN IF o.type /= LOOP THEN 0
     ELSE IF o.clones /= 0 THEN o.clones
     ELSE LET fixedSize  == IF o.direction = TTB THEN 0 ELSE o.fixedWidth
              fixedCount == IF fixedSize = 0 THEN 0 ELSE ceil(w.listWidth, fixedSize)
              baseCount  == IF fixedCount /= 0 THEN fixedCount
                            ELSE IF o.direction /= TTB /\ o.autoWidth /\ w.realCount /= 0
                                 THEN w.realCount
                                 ELSE o.perPage
          IN baseCount * (IF o.drag
                          THEN (IF o.flickMaxPages /= 0 THEN o.flickMaxPages ELSE 1) + 1
                          ELSE 2)

\* Mutant: the real slides are not repeated when they are fewer than count.
NotRepeated(slides, count) == slides

\* while ( slides.length < count ) { push( slides, slides ) }
RECURSIVE Repeated(_, _)
Repeated(slides, count) ==
  IF Len(slides) < count THEN Repeated(slides \o slides, count) ELSE slides

\* Mutant: the head clones are taken from the front of the sequence.
SliceLastFromFront(s, n) == SubSeq(s, 1, IF Len(s) > n THEN n ELSE Len(s))

\* Array.prototype.slice( -n ) and slice( 0, n )
\* slice( -0 ) is slice( 0 ): the whole array.
SliceLast(s, n) ==
  IF n = 0 THEN s ELSE SubSeq(s, IF Len(s) > n THEN Len(s) - n + 1 ELSE 1, Len(s))

SliceFirst(s, n) == SubSeq(s, 1, IF Len(s) > n THEN n ELSE Len(s))

\* Mutant: the tail clones are not moved behind the real slides.
CloneIndexNoOffset(i, count, length) == i - count

\* index - count + ( isHead ? 0 : length ), with isHead = index < count
CloneIndex(i, count, length) == i - count + (IF i < count THEN 0 ELSE length)

\* The body of the forEach in generate(), from the item at i on: the clone
\* element is created with the classes of its source, inserted and registered.
RECURSIVE GenerateEach(_, _, _, _, _, _, _)
GenerateEach(w, gen, slides, sources, i, count, length) ==
  IF i >= Len(sources) THEN w
  ELSE LET Slide  == w.slideObjects[sources[i + 1]]
           isHead == i < count
           clone  == 0 - (Len(w.slideObjects) + 1)
           first  == w.slideObjects[slides[1]].slide
           w1     == [w EXCEPT
                        !.classes = (clone :> (w.classes[Slide.slide] \cup {CLASS_CLONE})) @@ @,
                        !.list = IF isHead /\ first \in Range(@)
                                 THEN InsertBefore(@, clone, first)
                                 ELSE Append(@, clone),
                        !.instances[gen].clones = Append(@, clone)]
       IN GenerateEach(register(w1, gen, clone, CloneIndex(i, count, length), Slide.index),
                       gen, slides, sources, i + 1, count, length)

\* Clones.generate( count )
generate(w, gen, count, id) ==
  LET slides == Inst(w, gen).Slides
      length == Len(slides)
  IN IF length = 0 THEN w
     ELSE LET all == Repeated(slides, count)
              w1  == GenerateEach(w, gen, all,
                                  SliceLast(all, count) \o SliceFirst(all, count),
                                  0, count, length)
          IN Logged(w1, [t |-> "generate", id |-> id, gen |-> gen, count |-> count,
                         length |-> length, real |-> w.realCount,
                         Slides |-> [k \in 1..Len(Inst(w1, gen).Slides) |->
                                       w1.slideObjects[Inst(w1, gen).Slides[k]]],
                         list |-> w1.list])

\* Clones.init()
ClonesInit(w, base, id, gen) ==
  LET n  == computeCloneCount(w)
      w1 == [w EXCEPT !.instances[gen].cloneCount = n]
  IN IF n /= 0 THEN emit(generate(w1, gen, n, id), base, id, EVENT_RESIZE)
     ELSE [w1 EXCEPT !.stack = base]

\* Mutant: the clone elements stay in the list.
ClonesDestroyKeepElements(w, gen) == [w EXCEPT !.instances[gen].clones = <<>>]

\* Clones.destroy(): remove( clones ); empty( clones )
ClonesDestroy(w, gen) ==
  [w EXCEPT !.list = SelectSeq(@, LAMBDA elm : elm \notin Range(Inst(w, gen).clones)),
            !.instances[gen].clones = <<>>]

\* Mutant: a refresh is requested whenever the required count differs.
ObserveNeedsRefreshOnChange(w, gen) == Inst(w, gen).cloneCount /= computeCloneCount(w)

\* cloneCount < computeCloneCount()
ObserveNeedsRefresh(w, gen) == Inst(w, gen).cloneCount < computeCloneCount(w)

\* Clones.observe()
ClonesObserve(w, base, id, gen) ==
  LET w1 == Logged(w, [t |-> "observe", id |-> id, gen |-> gen,
                       installed |-> Inst(w, gen).cloneCount,
                       required |-> computeCloneCount(w)])
  IN IF ObserveNeedsRefresh(w, gen) THEN emit(w1, base, id, EVENT_REFRESH)
     ELSE [w1 EXCEPT !.stack = base]

\* Clones.mount() after init()
ClonesListen(w, gen) ==
  Listen(Listen(Listen(w, <<EVENT_REFRESH>>, "Clones.destroy", gen, 0),
                <<EVENT_REFRESH>>, "Clones.init", gen, 0),
         <<EVENT_UPDATED, EVENT_RESIZE>>, "Clones.observe", gen, 0)

\* Clones.mount()
ClonesMount(w, base, id, gen) ==
  ClonesInit(w, Append(base, Cont("Clones.listen", id, gen, 0)), id, gen)

\* ---- Layout

\* A value that is a string or a number.
Str(s) == [k |-> "str", v |-> s]

Num(n) == [k |-> "num", v |-> n]

\* unit( value ): a string as it is, a number with 'px', '' for 0
unit(value) ==
  IF value.k = "str" THEN value.v
  ELSE IF value.v /= 0 THEN ToString(value.v) \o "px" ELSE ""

\* unit( options.height || rect( list ).width * options.heightRatio )
cssHeight(w) ==
  unit(IF w._options.height /= "" THEN Str(w._options.height)
       ELSE Num(w.listWidth * w._options.heightRatio))

\* calc( 100% / ( options.perPage || 1 ) ), there being no gap
cssSlideSize(w) == Calc(IF w._options.perPage = 0 THEN 1 ELSE w._options.perPage)

\* options.autoWidth ? '' : unit( options.fixedWidth ) || ( vertical ? '' : cssSlideSize() )
cssSlideWidth(w, gen) ==
  IF w._options.autoWidth THEN NoRule
  ELSE IF w._options.fixedWidth /= 0 THEN Px(w._options.fixedWidth)
  ELSE IF Inst(w, gen).vertical THEN NoRule
  ELSE cssSlideSize(w)

\* unit( options.fixedHeight ) || ( vertical ? ( options.autoHeight ? '' : cssSlideSize() ) : cssHeight() )
\* with neither fixedHeight nor autoHeight set
cssSlideHeight(w, gen) ==
  IF Inst(w, gen).vertical THEN cssSlideSize(w)
  ELSE IF cssHeight(w) = "" THEN NoRule
  ELSE Css(cssHeight(w))

\* setSlidesHeight(): Slides.rule( 'height', cssSlideHeight(), true )
setSlidesHeight(w, gen) == [w EXCEPT !.styles.height = cssSlideHeight(w, gen)]

\* Layout.resize(): ruleBy( track, 'height', cssTrackHeight() ), where
\* cssTrackHeight() asserts the height of a vertical slider before the rule is
\* written and is '' for a horizontal one; options.heightRatio &&
\* setSlidesHeight(); then EVENT_RESIZED is emitted.
LayoutResize(w, base, id, gen) ==
  LET failed == Inst(w, gen).vertical /\ cssHeight(w) = ""
      w1     == Logged(w, [t |-> "layout", id |-> id, gen |-> gen,
                           direction |-> w._options.direction,
                           height |-> w._options.height,
                           heightRatio |-> w._options.heightRatio,
                           width |-> w.listWidth, failed |-> failed])
      w2     == [w1 EXCEPT !.styles.track =
                             IF Inst(w, gen).vertical THEN cssHeight(w) ELSE ""]
      w3     == IF w._options.heightRatio /= 0 THEN setSlidesHeight(w2, gen) ELSE w2
  IN IF failed
     THEN Throw(w1, id, "\"height\" or \"heightRatio\" is missing.")
     ELSE emit(w3, base, id, EVENT_RESIZED)

\* Layout.init(): Slides.rule( 'width', cssSlideWidth() ); setSlidesHeight(); resize()
LayoutInit(w, base, id, gen) ==
  LayoutResize(setSlidesHeight([w EXCEPT !.styles.width = cssSlideWidth(w, gen)], gen),
               base, id, gen)

\* Layout.mount() after init():
\*   bind( window, 'resize load', Throttle( emit.bind( this, EVENT_RESIZE ) ) );
\*   on( [ EVENT_UPDATED, EVENT_REFRESH ], init ); on( EVENT_RESIZE, resize )
\* The listener bound to the window is kept with the registrations of the
\* bus, under an event of its own that is never emitted.
LayoutListen(w, gen) ==
  Listen(Listen(Listen(w, <<WINDOW_RESIZE>>, "Layout.onResize", gen, 0),
                <<EVENT_UPDATED, EVENT_REFRESH>>, "Layout.init", gen, 0),
         <<EVENT_RESIZE>>, "Layout.resize", gen, 0)

\* Layout.mount()
LayoutMount(w, base, id, gen) ==
  LayoutInit(w, Append(base, Cont("Layout.listen", id, gen, 0)), id, gen)

\* ---- Arrows

\* on( [ EVENT_MOUNTED, EVENT_MOVED, EVENT_UPDATED, EVENT_REFRESH, EVENT_SCROLLED ], update )
ArrowsUpdateEvents ==
  <<EVENT_MOUNTED, EVENT_MOVED, EVENT_UPDATED, EVENT_REFRESH, EVENT_SCROLLED>>

\* Arrows.update(): the labels and the disabled flags, then EVENT_ARROWS_UPDATED
ArrowsUpdate(w, base, id, gen) == emit(w, base, id, EVENT_ARROWS_UPDATED)

\* Arrows.init(): the arrows are created when options.arrows asks for them
\* and there are none; arrows that exist are taken up once: listen(), then
\* EVENT_ARROWS_MOUNTED.
ArrowsInit(w, base, id, gen) ==
  LET w1 == IF w._options.arrows /\ ~Inst(w, gen).prev
            THEN [w EXCEPT !.instances[gen].prev = TRUE, !.instances[gen].created = TRUE]
            ELSE w
  IN IF Inst(w1, gen).prev /\ ~Inst(w1, gen).arrows
     THEN emit(Listen([w1 EXCEPT !.instances[gen].arrows = TRUE],
                      ArrowsUpdateEvents, "Arrows.update", gen, 0),
               base, id, EVENT_ARROWS_MOUNTED)
     ELSE [w1 EXCEPT !.stack = base]

\* Arrows.mount() after init(): on( EVENT_UPDATED, init )
ArrowsListen(w, gen) == Listen(w, <<EVENT_UPDATED>>, "Arrows.init", gen, 0)

\* Arrows.mount()
ArrowsMount(w, base, id, gen) ==
  ArrowsInit(w, Append(base, Cont("Arrows.listen", id, gen, 0)), id, gen)

\* ---- dispatch

\* component.mount() of a built-in component
ComponentMount(w, base, id, key, gen) ==
  CASE key = "Slides" -> [SlidesMount(w, gen) EXCEPT !.stack = base]
    [] key = "Clones" -> ClonesMount(w, base, id, gen)
    [] key = "Layout" -> LayoutMount(w, base, id, gen)
    [] key = "Arrows" -> ArrowsMount(w, base, id, gen)

\* Arrows.destroy(): the wrapper the component created is removed from the
\* document (or the attributes of the arrows of the markup are).
ArrowsDestroy(w, gen) == w

\* component.destroy() of a built-in component
ComponentDestroy(w, base, key, gen) ==
  CASE key = "Slides" -> [SlidesDestroy(w, gen) EXCEPT !.stack = base]
    [] key = "Clones" -> [ClonesDestroy(w, gen) EXCEPT !.stack = base]
    [] key = "Arrows" -> [ArrowsDestroy(w, gen) EXCEPT !.stack = base]

BuiltInCallbacks ==
  {"Slides.refresh", "Clones.destroy", "Clones.init", "Clones.observe", "Layout.init",
   "Layout.resize", "Slide.update", "Slide.onMove", "Slide.initNavigation",
   "Arrows.init", "Arrows.update"}

\* A handler of a built-in component is called by the emit of call id.
ComponentHandler(w, base, id, h) ==
  CASE h.cb = "Slides.refresh" -> [SlidesRefresh(w, h.gen) EXCEPT !.stack = base]
    [] h.cb = "Clones.destroy" -> [ClonesDestroy(w, h.gen) EXCEPT !.stack = base]
    [] h.cb = "Clones.init" -> ClonesInit(w, base, id, h.gen)
    [] h.cb = "Clones.observe" -> ClonesObserve(w, base, id, h.gen)
    [] h.cb = "Layout.init" -> LayoutInit(w, base, id, h.gen)
    [] h.cb = "Layout.resize" -> LayoutResize(w, base, id, h.gen)
    [] h.cb = "Slide.update" -> SlideUpdate(w, base, id, h.hid)
    [] h.cb = "Slide.onMove" -> onMove(w, base, id, h.hid)
    [] h.cb = "Slide.initNavigation" -> SlideInitNavigation(w, base, id, h.hid)
    [] h.cb = "Arrows.init" -> ArrowsInit(w, base, id, h.gen)
    [] h.cb = "Arrows.update" -> ArrowsUpdate(w, base, id, h.gen)

\* The rest of a component function.
Continue(w, f, base) ==
  CASE f.cb = "Clones.listen" -> [ClonesListen(w, f.gen) EXCEPT !.stack = base]
    [] f.cb = "Layout.listen" -> [LayoutListen(w, f.gen) EXCEPT !.stack = base]
    [] f.cb = "Arrows.listen" -> [ArrowsListen(w, f.gen) EXCEPT !.stack = base]
    [] f.cb = "Slide.updateVisibility" ->
         updateVisibility(w, base, f.id, f.hid, isVisible(w, w.slideObjects[f.hid]))
    [] f.cb = "Slide.toggleNeighbours" ->
         [toggleNeighbours(w, f.hid, f.curr) EXCEPT !.stack = base]

\* What the components of the registry hold: the placement index and the
\* slideIndex of every handle of Slides in the order of get(), the cloneCount
\* of Clones, and the slide elements of the list.
Held(w) ==
  IF ~HasKey(w.Components, "Slides") \/ ~HasKey(w.Components, "Clones")
  THEN [Slides |-> <<>>, cloneCount |-> 0, elements |-> Len(w.list)]
  ELSE LET S == Inst(w, Lookup(w.Components, "Slides").gen).Slides
       IN [Slides |-> [k \in 1..Len(S) |->
                         [index |-> w.slideObjects[S[k]].index,
                          slideIndex |-> w.slideObjects[S[k]].slideIndex]],
           cloneCount |-> Inst(w, Lookup(w.Components, "Clones").gen).cloneCount,
           elements |-> Len(w.list)]

\* ----------------------------------------------------------- the frames

Top == stack[Len(stack)]
Rest == SubSeq(stack, 1, Len(stack) - 1)

\* The component object a factory returns: the mount() call that created it
\* (gen) tells instances of one key apart.
Instance(key, id, tr) ==
  [key |-> key, gen |-> id, impl |-> IF key = TransitionKey THEN tr ELSE key]

\* Component( this, Components, this._options ); Components[ key ] = component.
\* The factory of Layout reads options.direction once.
Factory(w, key, id) ==
  LET w1 == [w EXCEPT !.Components = Store(@, Instance(key, id, w._Transition))]
  IN IF key = "Layout"
     THEN [w1 EXCEPT !.instances[id].vertical = (w._options.direction = TTB)]
     ELSE w1

\* Mutant: a single pass that mounts each component right after its setup.
ConstructAndMount(w, f, s) ==
  LET key  == f.keys[f.i]
      f2   == [f EXCEPT !.i = @ + 1]
      base == Append(Rest, f2)
      w1   == Logged(Factory(w, key, f.id),
                     [t |-> "new", id |-> f.id, key |-> key,
                      impl |-> Instance(key, f.id, w._Transition).impl])
      w2   == IF "setup" \in Hooks(key)
              THEN Logged(w1, [t |-> "hook", id |-> f.id, kind |-> "setup", key |-> key,
                               gen |-> f.id])
              ELSE w1
      w3   == IF "mount" \in Hooks(key)
              THEN Logged(w2, [t |-> "hook", id |-> f.id, kind |-> "mount", key |-> key,
                               gen |-> f.id])
              ELSE w2
  IN [w3 EXCEPT !.stack = IF s = "none" \/ w.nCalls >= MaxCalls THEN base
                          ELSE Append(base, [op |-> "hook", s |-> s])]

\* First loop of mount(), one factory per step:
\*   const component = Component( this, Components, this._options );
\*   Components[ key ] = component;
\*   component.setup && component.setup();
Construct(w, f, s) ==
  LET key  == f.keys[f.i]
      f2   == [f EXCEPT !.i = @ + 1]
      base == Append(Rest, f2)
      w1   == Logged(Factory(w, key, f.id),
                     [t |-> "new", id |-> f.id, key |-> key,
                      impl |-> Instance(key, f.id, w._Transition).impl])
  IN IF "setup" \in Hooks(key)
     THEN [Logged(w1, [t |-> "hook", id |-> f.id, kind |-> "setup", key |-> key,
                       gen |-> f.id])
             EXCEPT !.stack = IF s = "none" \/ w.nCalls >= MaxCalls THEN base
                              ELSE Append(base, [op |-> "hook", s |-> s])]
     ELSE [w1 EXCEPT !.stack = base]

\* The second loop starts: forOwn( Components, ... ) reads the keys now.
StartMountPass(w, f) ==
  [w EXCEPT !.stack = Append(Rest, [f EXCEPT !.pc = "mountpass", !.i = 1,
                                      !.keys = forOwn(Keys(w.Components), FALSE)])]

\* Second loop of mount(), one component per step: component.mount && component.mount()
MountHook(w, f, s) ==
  LET key  == f.keys[f.i]
      base == Append(Rest, [f EXCEPT !.i = @ + 1])
      gen  == Lookup(w.Components, key).gen
      w1   == Logged(w, [t |-> "hook", id |-> f.id, kind |-> "mount", key |-> key,
                         gen |-> gen])
  IN IF "mount" \notin Hooks(key) THEN [w EXCEPT !.stack = base]
     ELSE IF key \in Range(ComponentConstructors)
          THEN ComponentMount(w1, base, f.id, key, gen)
          ELSE Run(w1, base, s)

\* this.emit( EVENT_MOUNTED )
EmitMounted(w, f) == emit(w, Append(Rest, [f EXCEPT !.pc = "ready"]), f.id, EVENT_MOUNTED)

\* Mutant: `ready` is emitted without setting the state to IDLE.
EmitReadyKeepState(w, f) ==
  emit(w, Append(Rest, [f EXCEPT !.pc = "ret"]), f.id, EVENT_READY)

\* state.set( IDLE ); this.emit( EVENT_READY )
EmitReady(w, f) ==
  emit([w EXCEPT !.state = IDLE], Append(Rest, [f EXCEPT !.pc = "ret"]), f.id, EVENT_READY)

\* return this
MountReturn(w, f) ==
  [Logged(w, [t |-> "ret", id |-> f.id, op |-> "mount", st |-> w.state])
     EXCEPT !.stack = Rest]

\* refresh() returns this.
RefreshReturn(w, f) ==
  [Logged(w, [t |-> "ret", id |-> f.id, op |-> "refresh", st |-> w.state,
              held |-> Held(w)])
     EXCEPT !.stack = Rest]

\* Loop of destroy(), one component per step:
\*   component.destroy && component.destroy( completely )
DestroyHook(w, f, s) ==
  LET key  == f.keys[f.i]
      base == Append(Rest, [f EXCEPT !.i = @ + 1])
      gen  == Lookup(w.Components, key).gen
      w1   == Logged(w, [t |-> "hook", id |-> f.id, kind |-> "destroy", key |-> key,
                         gen |-> gen])
  IN IF "destroy" \notin Hooks(key) THEN [w EXCEPT !.stack = base]
     ELSE IF key \in Range(ComponentConstructors)
          THEN ComponentDestroy(w1, base, key, gen)
          ELSE Run(w1, base, s)

\* event.emit( EVENT_DESTROY )
EmitDestroy(w, f) == emit(w, Append(Rest, [f EXCEPT !.pc = "finish"]), f.id, EVENT_DESTROY)

\* The rest of destroy() after the emit.
DestroyFinish(w, f) == [Teardown(w, f) EXCEPT !.stack = Rest]

\* The emit loop invokes the next handler of its snapshot.
Invoke(w, f) ==
  LET h    == f.hs[f.i]
      base == IF f.i = Len(f.hs) THEN Rest ELSE Append(Rest, [f EXCEPT !.i = @ + 1])
      w1   == Logged(w, [t |-> "handler", id |-> f.id, ev |-> f.ev, cb |-> h.cb,
                         at |-> h.at, born |-> f.born, hid |-> h.hid])
  IN IF h.cb = "deferredDestroy" THEN destroy(w1, base, h.c)
     ELSE IF h.cb \in BuiltInCallbacks THEN ComponentHandler(w1, base, f.id, h)
     ELSE Run(w1, base, h.cb)

\* ------------------------------------------------------------- the inputs

ExtensionArgs ==
  {[given |-> FALSE, keys |-> <<>>], [given |-> TRUE, keys |-> <<>>],
   [given |-> TRUE, keys |-> <<ExtensionKey>>]}

TransitionArgs == {"undefined", "Custom"}

Patches == {[type |-> FADE], [perPage |-> 2]}

\* The other instances this one may be synced with.
SyncTargets == {"secondary"}

\* The handlers the user attaches: the event and what the callback does.
UserHandlers ==
  {<<EVENT_MOUNTED, "mount">>, <<EVENT_MOUNTED, "destroy">>,
   <<EVENT_READY, "destroy">>, <<EVENT_DESTROY, "none">>}

\* The events whose user handlers are removed with off().
OffEvents == {EVENT_MOUNTED, EVENT_DESTROY}

\* The events the user emits with emit().
EmittedEvents == {EVENT_MOUNTED, EVENT_READY, EVENT_REFRESH}

\* ------------------------------------------------------------ the actions

\* No call of merge() is being looked at.
NoMerge ==
  /\ mObject = Obj(0, NoProps)
  /\ mSource = Obj(0, NoProps)
  /\ mWas = Obj(0, NoProps)
  /\ mDone = FALSE

\* The state after the constructor: state CREATED, empty registry, the
\* options merged from the defaults and the constructor's argument.
Constructed(opts) ==
  /\ state = CREATED
  /\ Components = <<>>
  /\ _Extensions = <<>>
  /\ _Transition = "undefined"
  /\ _options = mergeOptions(DEFAULTS, opts)
  /\ splides = <<>>
  /\ handlers = <<>>
  /\ stack = <<>>
  /\ log = <<>>
  /\ nCalls = 0
  /\ index = 0
  /\ classes = [elm \in 0..(realCount - 1) |-> {}]
  /\ instances = [gen \in {0} |-> NewInstance]
  /\ list = [i \in 1..realCount |-> i - 1]
  /\ slideObjects = <<>>
  /\ styles = NoStyles
  /\ tasks = {}

\* A slider of one slide, constructed without options.
Init ==
  /\ realCount = 1
  /\ listWidth = 400
  /\ Constructed(NoProps)
  /\ NoMerge

AtTopLevel == stack = <<>> /\ nCalls < MaxCalls

Mount ==
  /\ AtTopLevel
  /\ \E E \in ExtensionArgs, T \in TransitionArgs : Becomes(mount(World, <<>>, E, T))

Destroy ==
  /\ AtTopLevel
  /\ \E completely \in BOOLEAN : Becomes(destroy(World, <<>>, completely))

SetOptions ==
  /\ AtTopLevel
  /\ \E patch \in Patches : Becomes(options(World, <<>>, patch))

Refresh ==
  /\ AtTopLevel
  /\ Becomes(refresh(World, <<>>))

\* Splide.sync( splide ): this.splides.push( { splide } ) in every state and
\* for a target already held; an idle slider remounts the Sync components of
\* both instances (remount), which changes nothing the model holds.  The
\* Components of a target that was never mounted is {}:
\* splide.Components.Sync.remount() throws a TypeError, after the push.
sync(w, splide, mounted) ==
  LET id == w.nCalls + 1
      w1 == Logged([Called(w) EXCEPT !.splides = Append(@, [splide |-> splide])],
                   [t |-> "call", id |-> id, op |-> "sync", st |-> w.state,
                    ok |-> (w.state /= IDLE \/ mounted), remount |-> (w.state = IDLE)])
  IN IF w.state = IDLE /\ ~mounted
     THEN Throw(w1, id, "TypeError: Cannot read properties of undefined (reading 'remount')")
     ELSE w1

\* The target has been mounted, or not yet.
Sync ==
  /\ AtTopLevel
  /\ \E splide \in SyncTargets, mounted \in BOOLEAN : Becomes(sync(World, splide, mounted))

\* Splide.on( events, callback ):
\* this.event.on( events, callback, null, DEFAULT_USER_EVENT_PRIORITY )
UserHandler(w, ev, s) ==
  [event |-> ev, cb |-> s, c |-> TRUE, key |-> "null",
   priority |-> DEFAULT_USER_EVENT_PRIORITY, at |-> Len(w.log), gen |-> 0, hid |-> 0]

SplideOn(w, ev, s) ==
  Logged([Called(w) EXCEPT !.handlers = on(@, UserHandler(w, ev, s))],
         [t |-> "call", id |-> w.nCalls + 1, op |-> "on", st |-> w.state,
          ok |-> TRUE, ev |-> ev])

On ==
  /\ AtTopLevel
  /\ \E u \in UserHandlers : Becomes(SplideOn(World, u[1], u[2]))

\* Splide.off( events ): this.event.off( events )
SplideOff(w, ev) ==
  Logged([Called(w) EXCEPT !.handlers = off(@, ev)],
         [t |-> "call", id |-> w.nCalls + 1, op |-> "off", st |-> w.state, ok |-> TRUE,
          ev |-> ev])

Off ==
  /\ AtTopLevel
  /\ \E ev \in OffEvents : Becomes(SplideOff(World, ev))

\* Splide.emit( event ): this.event.emit( event, ...args )
SplideEmit(w, base, ev) ==
  LET id == w.nCalls + 1
      w1 == Logged([Called(w) EXCEPT !.stack = base],
                   [t |-> "call", id |-> id, op |-> "emit", st |-> w.state, ok |-> TRUE,
                    ev |-> ev])
  IN emit(w1, base, id, ev)

Emit ==
  /\ AtTopLevel
  /\ \E ev \in EmittedEvents : Becomes(SplideEmit(World, <<>>, ev))

\* A callback waiting in the event loop, put there by call id.
Task(cb, gen, id) == [cb |-> cb, gen |-> gen, id |-> id]

\* The controls given to go(): the next page and the previous one.
Controls == {">", "<"}

\* Controller.parse( control ) for '>' and '<': the index a page of perPage
\* slides further or back, around the ends of a loop; -1 where there is none.
parse(w, control) ==
  LET step == IF w._options.perPage = 0 THEN 1 ELSE w._options.perPage
      dest == IF control = ">" THEN w.index + step ELSE w.index - step
  IN IF w.realCount = 0 THEN -1
     ELSE IF dest \in 0..(w.realCount - 1) THEN dest
     ELSE IF w._options.type = LOOP THEN dest % w.realCount
     ELSE -1

\* this._Components is undefined until mount() has been called:
\* this._Components.Controller throws a TypeError.
NeverMounted(w, id, key) ==
  Throw(w, id, "TypeError: Cannot read properties of undefined (reading '" \o key \o "')")

\* Splide.go( control ): this._Components.Controller.go( control ).  An idle
\* slider sets off for another index: the index is set, the state is MOVING
\* and EVENT_MOVE is emitted; the transition ends in a callback.
go(w, base, control) ==
  LET id    == w.nCalls + 1
      dest  == parse(w, control)
      moves == w.state = IDLE /\ dest /= -1 /\ dest /= w.index
      w1    == Logged([Called(w) EXCEPT !.stack = base],
                      [t |-> "call", id |-> id, op |-> "go", st |-> w.state,
                       ok |-> (w.Components /= <<>>), control |-> control, dest |-> dest,
                       moves |-> moves])
  IN IF w.Components = <<>> THEN NeverMounted(w1, id, "Controller")
     ELSE IF ~moves THEN w1
     ELSE emit([w1 EXCEPT !.index = dest, !.state = MOVING,
                          !.tasks = @ \cup {Task("Transition.end", 0, id)}],
               base, id, EVENT_MOVE)

Go ==
  /\ AtTopLevel
  /\ \E control \in Controls : Becomes(go(World, <<>>, control))

\* The callback Move.move() gives to Transition.start(): the slider that is
\* still moving is idle again, and EVENT_MOVED is emitted.
onTransitionEnd(w, task) ==
  LET w1 == [w EXCEPT !.tasks = @ \ {task}]
  IN IF w.state /= MOVING THEN w1
     ELSE emit(Logged([w1 EXCEPT !.state = IDLE],
                      [t |-> "task", id |-> task.id, cb |-> task.cb, gen |-> task.gen]),
               <<>>, task.id, EVENT_MOVED)

TransitionEnd ==
  /\ stack = <<>>
  /\ \E task \in tasks : task.cb = "Transition.end" /\ Becomes(onTransitionEnd(World, task))

\* The index given to add(): none (-1), the slide is appended.  The index of
\* a handle is fixed when it is made (Slide.ts:85), so the slides that have
\* their handles keep their places.
AddIndices == {-1}

\* Splide.add( slides, index ): this._Components.Slides.add( slides, index )
add(w, base, at) ==
  LET id == w.nCalls + 1
      w1 == Logged([Called(w) EXCEPT !.stack = base],
                   [t |-> "call", id |-> id, op |-> "add", st |-> w.state,
                    ok |-> (w.Components /= <<>>), at |-> at])
  IN IF w.Components = <<>> THEN NeverMounted(w1, id, "Slides")
     ELSE SlidesAdd(w1, base, id, at)

Add ==
  /\ AtTopLevel
  /\ realCount < MaxSlides
  /\ \E i \in AddIndices : Becomes(add(World, <<>>, i))

\* The matcher given to remove(): the index of the last slide (0 when there
\* is none), so that the other slides keep their indices.
Matcher(n) == IF n = 0 THEN 0 ELSE n - 1

\* Splide.remove( matcher ): this._Components.Slides.remove( matcher )
remove(w, base, matcher) ==
  LET id == w.nCalls + 1
      w1 == Logged([Called(w) EXCEPT !.stack = base],
                   [t |-> "call", id |-> id, op |-> "remove", st |-> w.state,
                    ok |-> (w.Components /= <<>>), matcher |-> matcher])
  IN IF w.Components = <<>> THEN NeverMounted(w1, id, "Slides")
     ELSE SlidesRemove(w1, base, id, Lookup(w.Components, "Slides").gen, matcher)

Remove ==
  /\ AtTopLevel
  /\ Becomes(remove(World, <<>>, Matcher(realCount)))

\* The Controller and Drag components set MOVING and DRAGGING while the user
\* interacts with an idle slider (an arrow, a key, a drag), and IDLE again
\* when the interaction ends.  A movement that go() has started ends in
\* TransitionEnd.
Interact ==
  /\ stack = <<>>
  /\ \A task \in tasks : task.cb /= "Transition.end"
  /\ \/ state = IDLE /\ state' \in {MOVING, DRAGGING}
     \/ state \in {MOVING, DRAGGING} /\ state' = IDLE
  /\ UNCHANGED <<Components, _Extensions, _Transition, _options, splides, handlers,
                 stack, log, nCalls, sliderVars, mergeVars>>

MountStep ==
  /\ stack /= <<>>
  /\ Top.op = "mount"
  /\ \/ /\ Top.pc = "construct"
        /\ Top.i <= Len(Top.keys)
        /\ \E s \in HookScripts(Top.keys[Top.i]) : Becomes(Construct(World, Top, s))
     \/ /\ Top.pc = "construct"
        /\ Top.i > Len(Top.keys)
        /\ Becomes(StartMountPass(World, Top))
     \/ /\ Top.pc = "mountpass"
        /\ Top.i <= Len(Top.keys)
        /\ \E s \in HookScripts(Top.keys[Top.i]) : Becomes(MountHook(World, Top, s))
     \/ /\ Top.pc = "mountpass"
        /\ Top.i > Len(Top.keys)
        /\ Becomes(EmitMounted(World, Top))
     \/ /\ Top.pc = "ready"
        /\ Becomes(EmitReady(World, Top))
     \/ /\ Top.pc = "ret"
        /\ Becomes(MountReturn(World, Top))

DestroyStep ==
  /\ stack /= <<>>
  /\ Top.op = "destroy"
  /\ \/ /\ Top.pc = "hooks"
        /\ Top.i <= Len(Top.keys)
        /\ \E s \in HookScripts(Top.keys[Top.i]) : Becomes(DestroyHook(World, Top, s))
     \/ /\ Top.pc = "hooks"
        /\ Top.i > Len(Top.keys)
        /\ Becomes(EmitDestroy(World, Top))
     \/ /\ Top.pc = "finish"
        /\ Becomes(DestroyFinish(World, Top))

EmitStep ==
  /\ stack /= <<>>
  /\ Top.op = "emit"
  /\ Becomes(Invoke(World, Top))

HookStep ==
  /\ stack /= <<>>
  /\ Top.op = "hook"
  /\ Becomes(Run(World, Rest, Top.s))

RefreshStep ==
  /\ stack /= <<>>
  /\ Top.op = "refresh"
  /\ Becomes(RefreshReturn(World, Top))

\* A component function goes on after the emit it issued.
ContStep ==
  /\ stack /= <<>>
  /\ Top.op = "cont"
  /\ Becomes(Continue(World, Top, Rest))

Next ==
  \/ Mount
  \/ Destroy
  \/ SetOptions
  \/ Refresh
  \/ Sync
  \/ On
  \/ Off
  \/ Emit
  \/ Go
  \/ TransitionEnd
  \/ Add
  \/ Remove
  \/ Interact
  \/ MountStep
  \/ DestroyStep
  \/ EmitStep
  \/ HookStep
  \/ RefreshStep
  \/ ContStep

Spec == Init /\ [][Next]_vars

\* ------------------------------------------------------- the slider at work

\* The numbers of slide elements and the widths of the list that are tried.
RealCounts == {0, 1, 2, 5}

Widths == {0, 400}

\* The options given to the constructor.
SliderOptions ==
  {[type |-> LOOP],
   [type |-> LOOP, clones |-> 5],
   [type |-> LOOP, fixedWidth |-> 200, drag |-> FALSE],
   [type |-> SLIDE],
   [direction |-> TTB, height |-> "10em"],
   [direction |-> TTB, heightRatio |-> 2],
   [direction |-> TTB],
   [arrows |-> TRUE],
   [type |-> LOOP, updateOnMove |-> TRUE]}

\* The options assigned to a slider at work.
SliderPatches ==
  {[type |-> SLIDE], [type |-> LOOP], [type |-> FADE], [perPage |-> 2],
   [height |-> "10em"]}

SliderInit ==
  /\ realCount \in RealCounts
  /\ listWidth \in Widths
  /\ \E o \in SliderOptions : Constructed(o)
  /\ NoMerge

\* The slider is driven from its first mount() on.
Started == AtTopLevel /\ Components /= <<>>

SliderMount ==
  /\ AtTopLevel
  /\ Becomes(mount(World, <<>>, [given |-> FALSE, keys |-> <<>>], "undefined"))

SliderDestroy ==
  /\ Started
  /\ Becomes(destroy(World, <<>>, TRUE))

\* The author has the slider refreshed whenever it sets off: one `move`
\* handler that calls refresh().
SliderHandlers == {<<EVENT_MOVE, "refresh">>}

SliderOn ==
  /\ AtTopLevel
  /\ \E u \in SliderHandlers : Becomes(SplideOn(World, u[1], u[2]))

SliderRefresh ==
  /\ Started
  /\ Becomes(refresh(World, <<>>))

SliderSetOptions ==
  /\ Started
  /\ \E patch \in SliderPatches : Becomes(options(World, <<>>, patch))

\* A `resize` or `load` event of the window, after which the list is `width`
\* wide: the listener of every Layout bound to the window is throttled, so
\* its call is due later, and a call that is due already is superseded.
windowResize(w, width) ==
  LET id    == w.nCalls + 1
      bound == {h.gen : h \in Range(Snapshot(w.handlers, WINDOW_RESIZE))}
  IN Logged([Called(w) EXCEPT
               !.listWidth = width,
               !.tasks = {x \in @ : ~(x.cb = "Layout.onResize" /\ x.gen \in bound)}
                           \cup {Task("Layout.onResize", g, id) : g \in bound}],
            [t |-> "call", id |-> id, op |-> "resize", st |-> w.state, ok |-> TRUE,
             width |-> width])

WindowResize ==
  /\ Started
  /\ \E width \in Widths : Becomes(windowResize(World, width))

\* The throttled listener runs: emit.bind( this, EVENT_RESIZE )
onResize(w, task) ==
  emit(Logged([w EXCEPT !.tasks = @ \ {task}],
              [t |-> "task", id |-> task.id, cb |-> task.cb, gen |-> task.gen]),
       <<>>, task.id, EVENT_RESIZE)

Throttled ==
  /\ stack = <<>>
  /\ \E task \in tasks : task.cb = "Layout.onResize" /\ Becomes(onResize(World, task))

SliderGo ==
  /\ Started
  /\ \E control \in Controls : Becomes(go(World, <<>>, control))

SliderAdd ==
  /\ Started
  /\ realCount < MaxSlides
  /\ \E i \in AddIndices : Becomes(add(World, <<>>, i))

SliderRemove ==
  /\ Started
  /\ Becomes(remove(World, <<>>, Matcher(realCount)))

\* The Sync component of a slider that is the navigation of another one
\* announces itself.
navigationMounted(w, base) ==
  LET id == w.nCalls + 1
      w1 == Logged([Called(w) EXCEPT !.stack = base],
                   [t |-> "call", id |-> id, op |-> "navigation", st |-> w.state,
                    ok |-> TRUE])
  IN emit(w1, base, id, EVENT_NAVIGATION_MOUNTED)

NavigationMounted ==
  /\ Started
  /\ state = IDLE
  /\ Becomes(navigationMounted(World, <<>>))

\* The user emits an event the Move and Scroll components emit while the
\* track travels.
TravelEvents == {EVENT_SCROLLED, EVENT_REPOSITIONED}

SliderEmit ==
  /\ Started
  /\ \E ev \in TravelEvents : Becomes(SplideEmit(World, <<>>, ev))

SliderNext ==
  \/ SliderOn
  \/ SliderMount
  \/ SliderDestroy
  \/ SliderRefresh
  \/ SliderSetOptions
  \/ WindowResize
  \/ Throttled
  \/ SliderGo
  \/ TransitionEnd
  \/ SliderAdd
  \/ SliderRemove
  \/ NavigationMounted
  \/ SliderEmit
  \/ MountStep
  \/ DestroyStep
  \/ EmitStep
  \/ RefreshStep
  \/ ContStep

SliderSpec == SliderInit /\ [][SliderNext]_vars

\* ------------------------------------------------------- reading the log

\* --------------------------------------------- after an aborted mount()

\* A vertical slider constructed without a height: Layout.mount() throws and
\* mount() is aborted after Slides and Clones have been mounted.  The author
\* mounts again, supplies the height or another type, or refreshes.
RecoveryLengths == {1, 2}

RecoveryPatches == {[type |-> LOOP], [height |-> "10em"]}

RecoveryInit ==
  /\ realCount \in RecoveryLengths
  /\ listWidth = 400
  /\ Constructed([direction |-> TTB])
  /\ NoMerge

RecoveryAtTopLevel == stack = <<>> /\ nCalls < RecoveryCalls

RecoveryMount ==
  /\ RecoveryAtTopLevel
  /\ Becomes(mount(World, <<>>, [given |-> FALSE, keys |-> <<>>], "undefined"))

RecoveryRefresh ==
  /\ RecoveryAtTopLevel
  /\ Components /= <<>>
  /\ Becomes(refresh(World, <<>>))

RecoverySetOptions ==
  /\ RecoveryAtTopLevel
  /\ Components /= <<>>
  /\ \E patch \in RecoveryPatches : Becomes(options(World, <<>>, patch))

RecoveryNext ==
  \/ RecoveryMount
  \/ RecoveryRefresh
  \/ RecoverySetOptions
  \/ MountStep
  \/ EmitStep
  \/ RefreshStep
  \/ ContStep

RecoverySpec == RecoveryInit /\ [][RecoveryNext]_vars

\* ------------------------------------------------------------- log readers

Idx == 1..Len(log)

IsCall(i, op) == log[i].t = "call" /\ log[i].op = op

IsRet(i, op) == log[i].t = "ret" /\ log[i].op = op

IsEmit(i, ev) == log[i].t = "emit" /\ log[i].ev = ev

IsHook(i, kind) == log[i].t = "hook" /\ log[i].kind = kind

\* A mount() call that passed the guard.
IsMount(i) == IsCall(i, "mount") /\ log[i].ok

\* A destroy() call that executes the teardown (the state is not CREATED).
IsTeardown(i) == IsCall(i, "destroy") /\ log[i].st /= CREATED

\* A destroy() call that is deferred (the state is CREATED).
IsDeferral(i) == IsCall(i, "destroy") /\ log[i].st = CREATED

\* The entries a call made itself (not the ones of the calls nested in it).
Of(i, id) == log[i].id = id

\* Entry i was logged by a mount() call that passed the guard.
ByMount(i) == \E c \in 1..i : IsMount(c) /\ Of(i, log[c].id)

\* The position of a key in the registry.
Pos(key) == CHOOSE i \in 1..Len(Components) : Components[i].key = key

\* -------------------------------------------------------------------- C1

\* C1: a mount() called while the state is neither CREATED nor DESTROYED fails
\* with 'Already mounted!' and does nothing else: the state, the registry, the
\* stored extensions and transition, the options, the bus and the sync targets
\* are unchanged by the call, and the call never instantiates a component,
\* invokes a hook or emits an event.
RefusedMountStep ==
  \A i \in (Len(log) + 1)..Len(log') :
    LET e == log'[i]
    IN (e.t = "call" /\ e.op = "mount" /\ e.st \notin {CREATED, DESTROYED})
       => /\ ~e.ok
          /\ Len(log') = i + 1
          /\ log'[i + 1].t = "throw"
          /\ log'[i + 1].id = e.id
          /\ log'[i + 1].message = "Already mounted!"
          /\ state' = state
          /\ Components' = Components
          /\ _Extensions' = _Extensions
          /\ _Transition' = _Transition
          /\ _options' = _options
          /\ handlers' = handlers
          /\ splides' = splides
          /\ \A k \in 1..Len(stack') : stack'[k].op = "mount" => stack'[k].id /= e.id

RefusedMountInert ==
  \A i \in Idx :
    (IsCall(i, "mount") /\ log[i].st \notin {CREATED, DESTROYED})
      => \A j \in Idx : Of(j, log[i].id) => j = i \/ (j = i + 1 /\ log[j].t = "throw")

C1_MountRefusedUnlessCreatedOrDestroyed ==
  [][RefusedMountStep]_vars /\ []RefusedMountInert

\* A mount() was called, and refused, while the slider was being dragged.
C1_Witness ==
  \E i \in Idx : IsCall(i, "mount") /\ log[i].st = DRAGGING /\ ~log[i].ok

\* -------------------------------------------------------------------- C2

\* C2: a mount() call that follows a mount() call that passed the guard, with no
\* destroy() call in between, is refused (and so instantiates nothing).
C2_SecondMountRefused ==
  \A i, j \in Idx :
    (/\ i < j
     /\ IsMount(i)
     /\ IsCall(j, "mount")
     /\ \A k \in (i + 1)..(j - 1) : ~IsCall(k, "destroy"))
    => /\ ~log[j].ok
       /\ \A k \in Idx : Of(k, log[j].id) => k = j \/ (k = j + 1 /\ log[k].t = "throw")

\* -------------------------------------------------------------------- C3

\* C3: a destroy() called while the state is CREATED returns at once with the
\* state still CREATED and without a destroy hook, a `destroy` event or a
\* clearing of the bus; and at the next emit of `ready` (the first one after
\* the call, no teardown having cleared the bus in between) the teardown runs
\* during the emit, so that the mount() that emitted `ready` returns with the
\* state DESTROYED.
DeferralDoesNothing ==
  \A i \in Idx :
    IsDeferral(i)
      => /\ i < Len(log) => (IsRet(i + 1, "destroy") /\ Of(i + 1, log[i].id)
                             /\ log[i + 1].st = CREATED)
         /\ \A j \in Idx : (Of(j, log[i].id) /\ j /= i) => j = i + 1

DeferredTeardownAtReady ==
  \A i, j \in Idx :
    (/\ i < j
     /\ IsDeferral(i)
     /\ IsEmit(j, EVENT_READY)
     /\ \A k \in (i + 1)..(j - 1) : log[k].t /= "clear")
    => /\ log[j].n >= 1
       /\ \A r \in Idx :
            (r > j /\ IsRet(r, "mount") /\ Of(r, log[j].id))
              => /\ log[r].st = DESTROYED
                 /\ \E k \in (j + 1)..(r - 1) : log[k].t = "clear"

C3_DestroyWhileCreatedIsDeferred == DeferralDoesNothing /\ DeferredTeardownAtReady

\* A destroy() was deferred, and the mount() that emitted `ready` afterwards has
\* just returned.
C3_Witness ==
  /\ log /= <<>>
  /\ IsRet(Len(log), "mount")
  /\ \E j \in Idx :
       /\ IsEmit(j, EVENT_READY)
       /\ Of(Len(log), log[j].id)
       /\ \E i \in 1..(j - 1) :
            /\ IsDeferral(i)
            /\ \A k \in (i + 1)..(j - 1) : log[k].t /= "clear"

\* -------------------------------------------------------------------- C4

\* The emits of an event made by one call.
EmitsOf(id, ev) == {m \in Idx : IsEmit(m, ev) /\ Of(m, id)}

\* Every call that began in from..to and runs frames has returned by to.
AllReturned(from, to) ==
  \A c \in from..to :
    (IsMount(c) \/ IsTeardown(c))
      => \E r \in c..to : log[r].t = "ret" /\ Of(r, log[c].id)

\* C4: a mount() that passed the guard emits `mounted` once and `ready` once,
\* `mounted` before `ready`, both after the mount hook of every registered
\* component has been invoked by this call and has returned; and it returns
\* with the state IDLE when no destroy() ran or was invoked while it ran.
C4_MountedThenReadyThenIdle ==
  \A i \in Idx :
    IsMount(i) =>
      LET id == log[i].id IN
      /\ Cardinality(EmitsOf(id, EVENT_MOUNTED)) <= 1
      /\ Cardinality(EmitsOf(id, EVENT_READY)) <= 1
      /\ \A y \in EmitsOf(id, EVENT_READY) : \E m \in EmitsOf(id, EVENT_MOUNTED) : m < y
      /\ \A m \in EmitsOf(id, EVENT_MOUNTED) :
           /\ \A n \in 1..m :
                (log[n].t = "new" /\ "mount" \in Hooks(log[n].key))
                  => \E h \in i..m : IsHook(h, "mount") /\ Of(h, id)
                                     /\ log[h].key = log[n].key
           /\ \A h \in Idx : (IsHook(h, "mount") /\ Of(h, id)) => h < m
           /\ AllReturned(i + 1, m)
      /\ \A r \in Idx :
           (IsRet(r, "mount") /\ Of(r, id))
             => /\ \E m, y \in i..r : /\ m < y
                                     /\ m \in EmitsOf(id, EVENT_MOUNTED)
                                     /\ y \in EmitsOf(id, EVENT_READY)
                /\ (\A k \in i..r : ~IsCall(k, "destroy")) => log[r].st = IDLE

\* A mount() with the extension has returned in IDLE.
C4_Witness ==
  \E i, h, r \in Idx :
    /\ IsMount(i)
    /\ IsHook(h, "mount") /\ Of(h, log[i].id) /\ log[h].key = ExtensionKey
    /\ IsRet(r, "mount") /\ Of(r, log[i].id) /\ log[r].st = IDLE

\* -------------------------------------------------------------------- C5

\* C5: within one mount() call every setup hook is invoked before any mount
\* hook: when a mount hook runs, every factory of the call has been
\* instantiated and every instance that has a setup hook has had it invoked.
C5_SetupsBeforeMounts ==
  \A b \in Idx :
    IsHook(b, "mount") =>
      /\ \A a \in Idx : (IsHook(a, "setup") /\ Of(a, log[b].id)) => a < b
      /\ \A n \in Idx :
           (log[n].t = "new" /\ Of(n, log[b].id) /\ "setup" \in Hooks(log[n].key))
             => \E a \in 1..b : IsHook(a, "setup") /\ Of(a, log[b].id)
                                /\ log[a].key = log[n].key
      /\ \A i \in 1..b :
           (IsMount(i) /\ Of(i, log[b].id))
             => \A k \in 1..Len(log[i].keys) :
                  \E n \in i..b : log[n].t = "new" /\ Of(n, log[b].id)
                                  /\ log[n].key = log[i].keys[k]

\* The extension's setup hook and a mount hook have run in one mount().
C5_Witness ==
  \E a, b \in Idx :
    /\ IsHook(a, "setup") /\ IsHook(b, "mount")
    /\ log[a].id = log[b].id
    /\ log[a].key = ExtensionKey

\* -------------------------------------------------------------------- C6

\* Every registered component with a destroy hook has had it invoked by the
\* teardown when the teardown emits `destroy`.
AllDestroyHooksRun(i, e) ==
  \A n \in 1..i :
    (log[n].t = "new" /\ "destroy" \in Hooks(log[n].key))
      => \E h \in i..e : IsHook(h, "destroy") /\ Of(h, log[i].id)
                         /\ log[h].key = log[n].key

\* C6 as stated: the teardown invokes the destroy hooks in registration order,
\* the component stored first in the registry first.
C6_DestroyInRegistrationOrder ==
  \A a, b \in Idx :
    (IsHook(a, "destroy") /\ IsHook(b, "destroy") /\ log[a].id = log[b].id /\ a < b)
      => Pos(log[a].key) < Pos(log[b].key)

\* C6 amended: the teardown invokes the destroy hooks in reverse registration
\* order, the component stored last in the registry first, and it invokes the
\* hook of every registered component that has one.
C6_DestroyInReverseRegistrationOrder ==
  /\ \A a, b \in Idx :
       (IsHook(a, "destroy") /\ IsHook(b, "destroy") /\ log[a].id = log[b].id /\ a < b)
         => Pos(log[a].key) > Pos(log[b].key)
  /\ \A i, e \in Idx :
       (IsTeardown(i) /\ IsEmit(e, EVENT_DESTROY) /\ Of(e, log[i].id))
         => AllDestroyHooksRun(i, e)

\* A teardown has returned after invoking the destroy hooks of three components.
C6_Witness ==
  \E i, r \in Idx :
    /\ IsTeardown(i)
    /\ IsRet(r, "destroy") /\ Of(r, log[i].id)
    /\ Cardinality({h \in Idx : IsHook(h, "destroy") /\ Of(h, log[i].id)}) = 3

\* -------------------------------------------------------------------- C7

\* The steps of every teardown in program order: the destroy hooks of all
\* registered components, one emit of `destroy`, the clearing of the bus, the
\* state DESTROYED at the return.
TeardownSteps ==
  \A i \in Idx :
    IsTeardown(i) =>
      LET id == log[i].id IN
      /\ Cardinality(EmitsOf(id, EVENT_DESTROY)) <= 1
      /\ \A e \in EmitsOf(id, EVENT_DESTROY) :
           /\ AllDestroyHooksRun(i, e)
           /\ \A h \in Idx : (IsHook(h, "destroy") /\ Of(h, id)) => h < e
           /\ AllReturned(i + 1, e - 1)
      /\ \A c \in Idx :
           (log[c].t = "clear" /\ Of(c, id))
             => /\ \E e \in EmitsOf(id, EVENT_DESTROY) : e < c
                /\ \A x \in Idx : (log[x].t = "handler" /\ Of(x, id)) => x < c
      /\ \A r \in Idx :
           (IsRet(r, "destroy") /\ Of(r, id))
             => /\ log[r].st = DESTROYED
                /\ log[r - 1].t = "clear" /\ Of(r - 1, id)

\* Once a teardown has cleared the bus, no handler registered before that is
\* registered any more, nor is one invoked by an emit that starts afterwards.
NoHandlerSurvivesTeardown ==
  \A c \in Idx :
    log[c].t = "clear" =>
      /\ \A k \in 1..Len(handlers) : handlers[k].at >= c
      /\ \A x \in Idx : (log[x].t = "handler" /\ log[x].born > c) => log[x].at >= c
      /\ \A k \in 1..Len(stack) :
           (stack[k].op = "emit" /\ stack[k].born > c)
             => \A n \in 1..Len(stack[k].hs) : stack[k].hs[n].at >= c

\* C7 as stated: the teardown steps in order, the state not yet DESTROYED when
\* the teardown emits `destroy`, and no handler surviving the teardown.
C7_TeardownOrderStateNotYetDestroyed ==
  /\ TeardownSteps
  /\ NoHandlerSurvivesTeardown
  /\ \A e \in Idx : IsEmit(e, EVENT_DESTROY) => log[e].st /= DESTROYED

\* C7 amended: the steps in the stated order and no handler surviving the
\* teardown; the state is already DESTROYED when the teardown emits `destroy`
\* exactly if the teardown began on a destroyed instance (a repeated destroy())
\* or another teardown completed inside it, with no mount() since; otherwise
\* it is not yet DESTROYED.
C7_TeardownOrder ==
  /\ TeardownSteps
  /\ NoHandlerSurvivesTeardown
  /\ \A i, e \in Idx :
       (IsTeardown(i) /\ IsEmit(e, EVENT_DESTROY) /\ Of(e, log[i].id))
         => (log[e].st = DESTROYED
               <=> \/ log[i].st = DESTROYED /\ \A k \in i..e : ~IsRet(k, "mount")
                   \/ \E k \in i..e : /\ IsRet(k, "destroy")
                                      /\ \A m \in k..e : ~IsRet(m, "mount"))

\* A destroy() has just returned from a teardown with a `destroy` handler
\* invoked while the state was not yet DESTROYED.
C7_Witness ==
  /\ log /= <<>>
  /\ IsRet(Len(log), "destroy")
  /\ \E i \in Idx :
       /\ IsTeardown(i)
       /\ Of(Len(log), log[i].id)
       /\ \E x \in Idx :
            log[x].t = "handler" /\ log[x].ev = EVENT_DESTROY /\ Of(x, log[i].id)
       /\ \E e \in EmitsOf(log[i].id, EVENT_DESTROY) : log[e].st = IDLE

\* -------------------------------------------------------------------- C8

\* C8: an assignment to `options` merges the given options into the current ones
\* (the given keys take the given values, the other keys keep theirs) and then
\* emits `updated` once if the state is not CREATED and not at all if it is.
C8_OptionsMergedUpdatedUnlessCreated ==
  \A i \in Idx :
    IsCall(i, "options") =>
      /\ DOMAIN log[i].now = DOMAIN log[i].was \cup DOMAIN log[i].arg
      /\ \A k \in DOMAIN log[i].arg : log[i].now[k] = log[i].arg[k]
      /\ \A k \in DOMAIN log[i].was \ DOMAIN log[i].arg : log[i].now[k] = log[i].was[k]
      /\ IF log[i].st = CREATED
         THEN EmitsOf(log[i].id, EVENT_UPDATED) = {}
         ELSE i < Len(log) => EmitsOf(log[i].id, EVENT_UPDATED) = {i + 1}
      /\ i = Len(log) => (log[i].st = CREATED /\ _options = log[i].now)

\* Options were assigned once in CREATED and once in IDLE.
C8_Witness ==
  \E i, j \in Idx :
    /\ IsCall(i, "options") /\ log[i].st = CREATED
    /\ IsCall(j, "options") /\ log[j].st = IDLE
    /\ log[j].now /= log[j].was

\* -------------------------------------------------------------------- C9

\* C9 as stated: after a teardown the registry is empty.
C9_RegistryEmptyAfterTeardown ==
  (stack = <<>> /\ state = DESTROYED) => Components = <<>>

\* -------------------------------------------------------------------- C10

\* C10: a teardown with `completely` leaves the list of sync targets empty, one
\* without leaves the list as it was, and both run the same steps otherwise.
C10_SyncTargetsClearedOnlyWhenComplete ==
  /\ TeardownSteps
  /\ \A i, r \in Idx :
       (IsTeardown(i) /\ IsRet(r, "destroy") /\ Of(r, log[i].id))
         => IF log[i].c THEN log[r].splides = <<>>
                        ELSE log[r].splides = log[r - 1].splides
  /\ \A i \in Idx :
       (IsRet(i, "destroy") /\ i = Len(log)) => splides = log[i].splides

\* A partial teardown has returned and left a sync target in the list.
C10_Witness ==
  \E i, r \in Idx :
    /\ IsTeardown(i) /\ ~log[i].c
    /\ IsRet(r, "destroy") /\ Of(r, log[i].id)
    /\ log[r].splides /= <<>>

\* -------------------------------------------------------------------- C15

\* A step of the orchestrator (any step but an interaction: a drag, or a
\* movement between IDLE and MOVING that go() starts) that changes the
\* state: mount() passing the guard sets CREATED, and from DESTROYED nothing
\* else changes the state; the end of mount() sets IDLE from CREATED; the end of
\* a teardown sets DESTROYED.
OrchestratorStateChange ==
  (state' /= state /\ log' /= log /\ {state, state'} /= {IDLE, MOVING})
    => LET e == log'[Len(log')] IN
       \/ /\ state = DESTROYED
          /\ state' = CREATED
          /\ e.t = "call" /\ e.op = "mount" /\ e.ok
       \/ /\ state = CREATED
          /\ state' = IDLE
          /\ e.t = "emit" /\ e.ev = EVENT_READY
          /\ \E c \in 1..Len(log) : log[c].t = "call" /\ log[c].op = "mount" /\ log[c].ok
                                    /\ log[c].id = e.id
       \/ /\ state \notin {CREATED, DESTROYED}
          /\ state' = DESTROYED
          /\ e.t = "ret" /\ e.op = "destroy"

\* The state is CREATED from construction until a mount() emits `ready`, and is
\* never MOUNTED.
CreatedUntilMounted ==
  /\ state /= MOUNTED
  /\ (\A i \in Idx : ~(IsEmit(i, EVENT_READY) /\ ByMount(i))) => state = CREATED

\* C15: the orchestrator's operations put the state in CREATED, IDLE or
\* DESTROYED only: CREATED until a mount completes, IDLE after it, DESTROYED
\* after a teardown; from DESTROYED only mount() changes the state, to CREATED;
\* MOUNTED is never set.
C15_OrchestratorStates == [][OrchestratorStateChange]_vars /\ []CreatedUntilMounted

\* -------------------------------------------------------------------- C19

\* C19: when a setup hook runs, every factory of the mount() call has been
\* instantiated and stored in the registry.
C19_AllInstantiatedBeforeSetup ==
  \A a \in Idx :
    IsHook(a, "setup") =>
      \A i \in 1..a :
        (IsMount(i) /\ Of(i, log[a].id))
          => \A k \in 1..Len(log[i].keys) :
               \E n \in i..a : /\ log[n].t = "new"
                               /\ Of(n, log[a].id)
                               /\ log[n].key = log[i].keys[k]

\* ------------------------------------------------------------------ merge()

\* The values a key of an options object holds: primitives, arrays, and
\* objects nested up to three levels (padding: { left: { ... } }).  Arrays and
\* objects that already exist have the identities from + 1, from + 2, ...
MergeValues(from) ==
  { Val(2), Val(4),
    Arr(from + 1, <<1, 2>>),
    Obj(from + 2, [left |-> Val(1)]),
    Obj(from + 3, [left |-> Val(3), right |-> Arr(from + 4, <<5>>)]),
    Obj(from + 5, [left |-> Obj(from + 6, [top |-> Val(1)])]) }

MergeKeys == {"perPage", "padding"}

\* The objects over MergeKeys: each key is absent or holds one of the values.
MergeObjects(from) ==
  UNION { { Obj(from, f) : f \in [D -> MergeValues(from)] } : D \in SUBSET MergeKeys }

\* merge() is about to be called with an object and a source.
MergeInit ==
  /\ realCount = 1
  /\ listWidth = 400
  /\ Constructed(NoProps)
  /\ mObject \in MergeObjects(10)
  /\ mSource \in MergeObjects(20)
  /\ mWas = mObject
  /\ mDone = FALSE

\* merge( object, source ) runs and returns object.
Merge ==
  /\ ~mDone
  /\ mObject' = merge(mObject, mSource)
  /\ mDone' = TRUE
  /\ UNCHANGED <<mSource, mWas>>
  /\ UNCHANGED <<state, Components, _Extensions, _Transition, _options, splides,
                 handlers, stack, log, nCalls, sliderVars>>

MergeNext == Merge

MergeSpec == MergeInit /\ [][MergeNext]_vars

\* ------------------------------------------------------------------- C18

\* r is what merging s into o gives: r is the object o itself with the keys of
\* both; a key that s does not own is as in o; an array of s is copied (the
\* same items in a new array, none of o's items); a non-array object of s is
\* merged into o's value if that is an object and into a new empty object if
\* not; any other value of s is taken as it is.
RECURSIVE IsMergeOf(_, _, _)
IsMergeOf(r, o, s) ==
  /\ r.k = o.k
  /\ r.id = o.id
  /\ o.k = "arr" => r.items = o.items
  /\ DOMAIN r.f = DOMAIN o.f \cup DOMAIN s.f
  /\ \A key \in DOMAIN o.f \ DOMAIN s.f : r.f[key] = o.f[key]
  /\ \A key \in DOMAIN s.f :
       LET value == s.f[key] IN
       CASE value.k = "arr" ->
              /\ r.f[key].k = "arr"
              /\ r.f[key].items = value.items
              /\ r.f[key].id /= value.id
              /\ \A other \in DOMAIN o.f :
                   o.f[other].k = "arr" => r.f[key].id /= o.f[other].id
         [] value.k = "obj" ->
              IF key \in DOMAIN o.f /\ o.f[key].k \in {"arr", "obj"}
              THEN IsMergeOf(r.f[key], o.f[key], value)
              ELSE IsMergeOf(r.f[key], Obj(0, NoProps), value)
         [] OTHER -> r.f[key] = value

\* C18: merge(object, source) leaves the keys source does not own unchanged,
\* copies the arrays of source, merges the non-array objects of source
\* recursively (into a fresh object where object holds no object) and assigns
\* every other value; so a perPage merged later overrides the earlier one.
C18_MergeIsRecursiveAndCopiesArrays ==
  mDone => /\ IsMergeOf(mObject, mWas, mSource)
           /\ ("perPage" \in DOMAIN mSource.f /\ mSource.f["perPage"].k = "val")
                => mObject.f["perPage"] = mSource.f["perPage"]

\* merge() has written perPage 4 over perPage 2, copied an array of the source
\* and merged a nested object of the source into an object of the target.
C18_Witness ==
  /\ mDone
  /\ mWas.f = [perPage |-> Val(2), padding |-> Obj(12, [left |-> Val(1)])]
  /\ mSource.f = [perPage |-> Val(4),
                  padding |-> Obj(23, [left |-> Val(3), right |-> Arr(24, <<5>>)])]
  /\ mObject.f["perPage"] = Val(4)
  /\ mObject.f["padding"] = Obj(12, [left |-> Val(3), right |-> Arr(0, <<5>>)])

\* ------------------------------------------------------------ C12

\* The log entries of Clones.generate( count ), written when it returns.
IsGenerate(i) == log[i].t = "generate"

\* The positions in the registry of the clone handles ahead of the real
\* slides, and of those behind them.
HeadClones(e) ==
  {k \in 1..Len(e.Slides) : isClone(e.Slides[k]) /\ e.Slides[k].index < 0}

TailClones(e) ==
  {k \in 1..Len(e.Slides) : isClone(e.Slides[k]) /\ e.Slides[k].index >= e.real}

\* C12: when Clones.generate( N ) has run on a loop slider of L >= 1 real
\* slides (the slide elements of the list at that time), the registry holds exactly N head clones and N tail clones, L + 2N
\* handles in all of which L are real ones (getLength( true )), and every
\* clone's slideIndex is a real index in 0..L-1; this for L < N too.
C12_CloneCountsPerSide ==
  \A i \in Idx :
    (IsGenerate(i) /\ log[i].real >= 1 /\ log[i].count >= 1) =>
      LET e == log[i]
      IN /\ Cardinality(HeadClones(e)) = e.count
         /\ Cardinality(TailClones(e)) = e.count
         /\ Len(e.Slides) = e.real + 2 * e.count
         /\ Cardinality({k \in 1..Len(e.Slides) : ~isClone(e.Slides[k])}) = e.real
         /\ \A k \in 1..Len(e.Slides) :
              isClone(e.Slides[k]) => e.Slides[k].slideIndex \in 0..(e.real - 1)

\* Five clones per side were generated from two real slides.
C12_Witness ==
  \E i \in Idx :
    /\ IsGenerate(i)
    /\ log[i].real = 2
    /\ log[i].count = 5
    /\ Len(log[i].Slides) = 12

\* ------------------------------------------------------------ C20

\* The handles of the registry in document order: the handle of each slide
\* element of the list that the registry holds.
InDocumentOrder(e) ==
  LET mine == SelectSeq(e.list, LAMBDA elm : \E k \in 1..Len(e.Slides) : e.Slides[k].slide = elm)
  IN [p \in 1..Len(mine) |->
        e.Slides[CHOOSE k \in 1..Len(e.Slides) : e.Slides[k].slide = mine[p]]]

\* C20: when Clones.generate( N ) has run on L >= 1 real slides, the handles
\* in document order and the handles as the registry returns them both carry
\* the placement indices -N, ..., -1 (head clones), 0, ..., L-1 (real slides),
\* L, ..., L+N-1 (tail clones): one handle for each, so no two are equal.
C20_PlacementIndices ==
  \A i \in Idx :
    (IsGenerate(i) /\ log[i].real >= 1 /\ log[i].count >= 1) =>
      LET e == log[i]
          D == InDocumentOrder(e)
      IN /\ Len(D) = e.real + 2 * e.count
         /\ \A p \in 1..Len(D) :
              /\ D[p].index = p - 1 - e.count
              /\ isClone(D[p]) <=> (p <= e.count \/ p > e.count + e.real)
         /\ \A k \in 1..Len(e.Slides) : e.Slides[k].index = k - 1 - e.count

\* Two clones per side were generated from five real slides.
C20_Witness ==
  \E i \in Idx :
    /\ IsGenerate(i)
    /\ log[i].real = 5
    /\ log[i].count = 2
    /\ log[i].Slides[1].index = -2
    /\ log[i].Slides[9].index = 6

\* ------------------------------------------------------------ C11

\* The handles that the registry of the mounted slider holds.
RegisteredSlides ==
  LET S == Inst(World, Lookup(Components, "Slides").gen).Slides
  IN [k \in 1..Len(S) |-> slideObjects[S[k]]]

\* C11: whenever a mounted slider is at rest and its type is not loop, the
\* required clone count is 0 and the registry holds the real slides only:
\* as many handles as there are slide elements, none of them a clone.
C11_NoClonesUnlessLoop ==
  (stack = <<>> /\ state = IDLE /\ _options.type /= LOOP) =>
    /\ computeCloneCount(World) = 0
    /\ Len(RegisteredSlides) = realCount
    /\ \A k \in 1..Len(RegisteredSlides) : ~isClone(RegisteredSlides[k])

\* ------------------------------------------------------------ C13

\* refresh() call i has returned at r, and the next thing that happens is
\* another refresh() call, which has returned at s.
RefreshedTwice(r, s) ==
  /\ IsRet(r, "refresh")
  /\ IsRet(s, "refresh")
  /\ r + 1 \in Idx
  /\ IsCall(r + 1, "refresh")
  /\ log[s].id = log[r + 1].id

\* C13: when refresh() is called twice in succession, the second call leaves
\* what the first one left: the same clone count, the same handles in the
\* registry (placement index and slideIndex of each) and the same number of
\* slide elements in the list, so the earlier clones are gone.  (Stated of
\* the moment the second call returns.)
C13_RefreshIdempotent ==
  (log /= <<>> /\ IsRet(Len(log), "refresh")) =>
    \A r \in Idx :
      LET s == Len(log)
      IN RefreshedTwice(r, s) => log[s].held = log[r].held

\* A loop slider with clones in its registry was refreshed twice.
C13_Witness ==
  \E r \in Idx, s \in {Len(log)} :
    /\ RefreshedTwice(r, s)
    /\ log[s].held.cloneCount = 2
    /\ Len(log[s].held.Slides) = realCount + 4
    /\ realCount >= 1

\* ------------------------------------------------------------ C14

\* The two events of a status flag of a handle.
ActivityEvents == {EVENT_ACTIVE, EVENT_INACTIVE}

VisibilityEvents == {EVENT_VISIBLE, EVENT_HIDDEN}

\* Entry j of the log l is an emit of one of the events evs by handle hid.
IsStatusEmit(l, j, hid, evs) ==
  l[j].t = "emit" /\ l[j].arg = hid /\ l[j].ev \in evs

\* The emit at j, if it is one of the events evs, differs from the previous
\* emit of these events by the same handle.
Alternates(l, j, evs) ==
  (l[j].t = "emit" /\ l[j].ev \in evs) =>
    LET before == {i \in 1..(j - 1) : IsStatusEmit(l, i, l[j].arg, evs)}
    IN before /= {} =>
         l[CHOOSE i \in before : \A k \in before : k <= i].ev /= l[j].ev

\* The events evs that the update() logged at p emitted.
EmittedByUpdate(l, p, evs) ==
  {q \in {p + 1, p + 2} \cap (1..Len(l)) :
     /\ IsStatusEmit(l, q, l[p].hid, evs)
     /\ \A k \in (p + 1)..q : l[k].t = "emit" /\ l[k].arg = l[p].hid}

\* The update() at p, if its flags are those of the previous update() of the
\* same handle, emits no event.
SilentIfUnchanged(l, p) ==
  l[p].t = "update" =>
    LET before == {i \in 1..(p - 1) : l[i].t = "update" /\ l[i].hid = l[p].hid}
    IN before /= {} =>
         LET u == l[CHOOSE i \in before : \A k \in before : k <= i]
         IN /\ u.active = l[p].active => EmittedByUpdate(l, p, ActivityEvents) = {}
            /\ u.visible = l[p].visible => EmittedByUpdate(l, p, VisibilityEvents) = {}

\* C14: a handle emits active/inactive and visible/hidden only when the flag
\* changes: each such emit differs from the handle's previous one of the same
\* pair (active and inactive alternate, visible and hidden alternate), and an
\* update() whose flag is the one of the handle's previous update() emits
\* nothing for that flag.
C14_StatusEventsOnlyOnChange ==
  [][\A j \in (Len(log) + 1)..Len(log') :
       /\ Alternates(log', j, ActivityEvents)
       /\ Alternates(log', j, VisibilityEvents)
       /\ SilentIfUnchanged(log', j)]_vars

\* A handle became active in one update() and stayed active, silently, in
\* its next one.
C14_Witness ==
  \E p \in Idx, q \in Idx :
    /\ p < q
    /\ log[p].t = "update" /\ log[q].t = "update"
    /\ log[p].hid = log[q].hid
    /\ log[p].active /\ log[q].active
    /\ EmittedByUpdate(log, p, ActivityEvents) /= {}
    /\ EmittedByUpdate(log, q, ActivityEvents) = {}
    /\ q < Len(log)

\* ------------------------------------------------------------ C16

\* C16: the Transition component instantiated by a mount() call that was given
\* no transition argument is Fade if the type option is 'fade' at the call,
\* and Slide otherwise.
C16_DefaultTransitionByType ==
  \A i \in Idx :
    (IsMount(i) /\ log[i].T = "undefined") =>
      \A j \in Idx :
        (log[j].t = "new" /\ log[j].id = log[i].id /\ log[j].key = TransitionKey) =>
          log[j].impl = IF log[i].type = FADE THEN "Fade" ELSE "Slide"

\* ------------------------------------------------------------ C17

\* C17: a run of Layout.init() or Layout.resize() raises
\* '"height" or "heightRatio" is missing.' exactly when the direction is
\* top-to-bottom and neither the height nor the heightRatio option is set,
\* whatever the width of the list is.
C17_HeightAssertion ==
  \A i \in Idx :
    log[i].t = "layout" =>
      (log[i].failed <=>
         (log[i].direction = TTB /\ log[i].height = "" /\ log[i].heightRatio = 0))

\* ------------------------------------------------------------------- C21

\* The options, slide counts and track widths computeCloneCount() is tried on.
CloneCountOptions ==
  [type : {SLIDE, LOOP, FADE}, clones : {0, 3}, fixedWidth : {0, 200, 300},
   autoWidth : BOOLEAN, perPage : {1, 2}, drag : BOOLEAN, flickMaxPages : {0, 1, 2}]

CloneCountLengths == {0, 3}

CloneCountWidths == {0, 400, 500}

\* computeCloneCount() is about to be called on a constructed slider.
CloneCountInit ==
  /\ realCount \in CloneCountLengths
  /\ listWidth \in CloneCountWidths
  /\ \E o \in CloneCountOptions : Constructed(o)
  /\ NoMerge

\* computeCloneCount() runs; its result is recorded.
ComputeCloneCount ==
  /\ log = <<>>
  /\ Becomes(Logged(World, [t |-> "count", count |-> computeCloneCount(World)]))

CloneCountNext == ComputeCloneCount

CloneCountSpec == CloneCountInit /\ [][CloneCountNext]_vars

IsCount(i) == log[i].t = "count"

\* The count as the claim words it: the base is the quotient whenever a fixed
\* size is set, the slide count whenever the slides are auto-sized, and the
\* factor is the flick pages plus one.
ClaimedCloneCount(o, width, length) ==
  IF o.type /= LOOP THEN 0
  ELSE IF o.clones /= 0 THEN o.clones
  ELSE LET base   == IF o.fixedWidth /= 0 THEN ceil(width, o.fixedWidth)
                     ELSE IF o.autoWidth THEN length
                     ELSE o.perPage
           factor == IF o.drag THEN o.flickMaxPages + 1 ELSE 2
       IN base * factor

\* The same with the fallbacks: a quotient of zero and a slide count of zero
\* pass on to the next alternative, and flick pages that are unset or zero
\* count as one.
FallingBackCloneCount(o, width, length) ==
  IF o.type /= LOOP THEN 0
  ELSE IF o.clones /= 0 THEN o.clones
  ELSE LET quotient == IF o.fixedWidth /= 0 THEN ceil(width, o.fixedWidth) ELSE 0
           base     == IF quotient /= 0 THEN quotient
                       ELSE IF o.autoWidth /\ length /= 0 THEN length
                       ELSE o.perPage
           pages    == IF o.flickMaxPages /= 0 THEN o.flickMaxPages ELSE 1
           factor   == IF o.drag THEN pages + 1 ELSE 2
       IN base * factor

\* C21 as stated: computeCloneCount() returns 0 unless the type is loop, the
\* clones option when that is non-zero, and otherwise base times factor where
\* the base is ceil(track size / fixed size) when a fixed size is set, else the
\* number of real slides when the slides are auto-sized, else perPage, and the
\* factor is flickMaxPages + 1 with drag and 2 without.
C21_CloneCountAsClaimed ==
  \A i \in Idx : IsCount(i) =>
    log[i].count = ClaimedCloneCount(_options, listWidth, realCount)

\* C21 amended: the same, except that a quotient of zero (a track of width
\* zero) and a slide count of zero fall back to the next alternative and that
\* flickMaxPages counts as one when it is unset or zero.
C21_CloneCountWithFallbacks ==
  \A i \in Idx : IsCount(i) =>
    log[i].count = FallingBackCloneCount(_options, listWidth, realCount)

\* A loop slider with a fixed slide width and a track of width zero gets
\* perPage times two clones.
C21_Witness ==
  /\ \E i \in Idx : IsCount(i) /\ log[i].count = 4
  /\ _options.type = LOOP /\ _options.clones = 0 /\ _options.fixedWidth = 200
  /\ listWidth = 0 /\ ~_options.autoWidth /\ _options.perPage = 2
  /\ _options.drag /\ _options.flickMaxPages = 0

\* ------------------------------------------------------------------- C22

IsObserve(l, i) == l[i].t = "observe"

\* The entries a step appends to the log.
Appended == (Len(log) + 1)..Len(log')

\* observe() at entry i of the log went on to emit `refresh`.
ObserveRefreshed(l, i) ==
  /\ i < Len(l)
  /\ l[i + 1].t = "emit"
  /\ l[i + 1].ev = EVENT_REFRESH
  /\ l[i + 1].id = l[i].id

\* C22: whenever a `resize` or `updated` event reaches Clones.observe(), the
\* synthesizer emits `refresh` if and only if the required clone count is
\* strictly greater than the installed count; when it is equal or smaller no
\* `refresh` is emitted and the installed clones, their count and the list are
\* left as they were.
C22_ObserveRefreshesIffMoreRequired ==
  [][\A i \in Appended : IsObserve(log', i) =>
       /\ log'[i - 1].t = "handler" /\ log'[i - 1].ev \in {EVENT_RESIZE, EVENT_UPDATED}
       /\ ObserveRefreshed(log', i) <=> log'[i].required > log'[i].installed
       /\ log'[i].required <= log'[i].installed =>
            /\ i = Len(log')
            /\ instances' = instances
            /\ list' = list
            /\ slideObjects' = slideObjects]_vars

\* observe() has run with fewer clones required than are installed and has
\* emitted nothing, and has run with more and has emitted `refresh`.
C22_Witness ==
  /\ \E i \in Idx : /\ IsObserve(log, i)
                    /\ 0 < log[i].required /\ log[i].required < log[i].installed
                    /\ ~ObserveRefreshed(log, i)
  /\ \E i \in Idx : /\ IsObserve(log, i)
                    /\ log[i].required > log[i].installed
                    /\ ObserveRefreshed(log, i)

\* ------------------------------------------------------------------- C23

\* C23: when Clones.generate( N ) has run on L >= 1 real slides with N >= 1,
\* the clone at placement index p, for p in -N..-1 and in L..L+N-1, is a copy
\* of the real slide p mod L (the non-negative remainder): the clones continue
\* the real sequence cyclically on both sides, also when N > L and when N is
\* not a multiple of L.
C23_ClonesContinueCyclically ==
  \A i \in Idx :
    (IsGenerate(i) /\ log[i].length >= 1 /\ log[i].count >= 1) =>
      LET e == log[i]
      IN \A p \in (-e.count..-1) \cup (e.length..(e.length + e.count - 1)) :
           \E k \in 1..Len(e.Slides) :
             /\ e.Slides[k].index = p
             /\ isClone(e.Slides[k])
             /\ e.Slides[k].slideIndex = p % e.length

\* Five clones per side were generated from two real slides: the clone at -5
\* copies slide 1 and the clone at 6 copies slide 0.
C23_Witness ==
  \E i \in Idx :
    /\ IsGenerate(i)
    /\ log[i].length = 2
    /\ log[i].count = 5
    /\ \E k \in 1..Len(log[i].Slides) :
         log[i].Slides[k].index = -5 /\ log[i].Slides[k].slideIndex = 1
    /\ \E k \in 1..Len(log[i].Slides) :
         log[i].Slides[k].index = 6 /\ log[i].Slides[k].slideIndex = 0

\* ------------------------------------------------------------------- C24

IsHandler(i, ev) == log[i].t = "handler" /\ log[i].ev = ev

\* C24: mount() emits `mounted` while the state is still CREATED and `ready`
\* when it is already IDLE; so a destroy() that a `mounted` handler calls is
\* deferred, and the deferred destroy, run as a `ready` handler, executes the
\* teardown at once.
C24_StateDuringMountEvents ==
  \A i \in Idx :
    ByMount(i) =>
      /\ IsEmit(i, EVENT_MOUNTED) => log[i].st = CREATED
      /\ IsEmit(i, EVENT_READY) => log[i].st = IDLE
      /\ (IsHandler(i, EVENT_MOUNTED) /\ i < Len(log) /\ IsCall(i + 1, "destroy"))
           => IsDeferral(i + 1)
      /\ (IsHandler(i, EVENT_READY) /\ log[i].cb = "deferredDestroy" /\ i < Len(log))
           => IsTeardown(i + 1)

\* ------------------------------------------------------------------- C25

\* The calls that deliver a `refresh`, a `resize` or an `updated` event from
\* outside.
IsExternalEvent(i) ==
  IsCall(i, "refresh") \/ IsCall(i, "resize") \/ IsCall(i, "options")

\* C25: the feedback between Clones' handlers ends: the `resize` that init()
\* emits after it has installed the clones makes no observe() emit another
\* `refresh` while the options and the geometry stay as they are, so one
\* refresh(), window resize or options update makes a Clones instance generate
\* its clones at most once, and the cascade of events ends (the call stack
\* does not grow to the depth it is followed to).
C25_CascadeEnds ==
  /\ Len(stack) < MaxDepth
  /\ \A c \in Idx : IsExternalEvent(c) =>
       \A i, j \in c..Len(log) :
         (IsGenerate(i) /\ IsGenerate(j) /\ Of(i, log[c].id) /\ Of(j, log[c].id)
            /\ log[i].gen = log[j].gen) => i = j

\* ------------------------------------------------------------------- C26

\* The numbers of real slides and the clone counts generate() is tried on.
RepeatLengths == 0..5

RepeatCounts == 0..8

\* generate( count ) is about to be called on a slider of realCount slides.
RepeatInit ==
  /\ realCount \in RepeatLengths
  /\ listWidth = 400
  /\ Constructed(NoProps)
  /\ NoMerge

\* generate( count ) is called: slides = Slides.get().slice(), the real slides.
GenerateCall ==
  /\ stack = <<>>
  /\ log = <<>>
  /\ \E count \in RepeatCounts :
       Becomes([Logged(World, [t |-> "call", op |-> "generate", count |-> count])
                  EXCEPT !.stack = <<[op |-> "repeat", slides |-> [i \in 1..realCount |-> i],
                                      length |-> realCount, count |-> count]>>])

\* Mutant: the loop is entered without looking at the number of slides.
RepeatGoesOnUnguarded(slides, count, length) == Len(slides) < count

\* if ( length ) { while ( slides.length < count ) ... }: the loop goes on.
RepeatGoesOn(slides, count, length) == length /= 0 /\ Len(slides) < count

\* One test of the loop's condition: push( slides, slides ) when it holds, and
\* otherwise the sources of the clones are sliced from the sequence (none
\* without slides).
RepeatStep ==
  /\ stack /= <<>>
  /\ Top.op = "repeat"
  /\ IF RepeatGoesOn(Top.slides, Top.count, Top.length)
     THEN Becomes([World EXCEPT !.stack = <<[Top EXCEPT !.slides = @ \o @]>>])
     ELSE Becomes([Logged(World,
                     [t |-> "repeated", slides |-> Top.slides, count |-> Top.count,
                      length |-> Top.length,
                      sources |-> IF Top.length = 0 THEN <<>>
                                  ELSE SliceLast(Top.slides, Top.count)
                                         \o SliceFirst(Top.slides, Top.count)])
                    EXCEPT !.stack = <<>>])

RepeatNext == GenerateCall \/ RepeatStep

\* The loop is not suspended: a test that can be made is made.
RepeatSpec == RepeatInit /\ [][RepeatNext]_vars /\ WF_vars(RepeatStep)

\* What generate() has when its loop is over: without slides no source and so
\* no clone; with L >= 1 slides a sequence of at least N items that is the
\* real sequence itself or twice a sequence shorter than N, and from it N
\* sources for each side (for N = 0 the whole sequence, which slice( -0 )
\* returns); as Repeated() computes it.
RepeatedAsRequired ==
  \A i \in Idx : log[i].t = "repeated" =>
    LET e == log[i]
    IN IF e.length = 0 THEN e.sources = <<>> /\ e.slides = <<>>
       ELSE /\ Len(e.slides) >= e.count
            /\ Len(e.slides) = e.length \/ Len(e.slides) \div 2 < e.count
            /\ Len(e.sources) = IF e.count = 0 THEN e.length ELSE 2 * e.count
            /\ e.slides = Repeated([k \in 1..e.length |-> k], e.count)

\* C26: generate( N ) terminates for every number L >= 0 of real slides and
\* every N >= 0: with L = 0 it registers no clone and does not loop, and with
\* L >= 1 the repetition stops as soon as the sequence has at least N items.
C26_GenerateTerminates ==
  /\ []RepeatedAsRequired
  /\ (stack /= <<>>) ~> (stack = <<>> /\ \E i \in Idx : log[i].t = "repeated")

\* generate( 5 ) has returned on a slider without slides, having made no clone.
C26_Witness ==
  /\ stack = <<>>
  /\ \E i \in Idx : /\ log[i].t = "repeated"
                    /\ log[i].length = 0
                    /\ log[i].count = 5
                    /\ log[i].sources = <<>>

\* ------------------------------------------------------------------- C27

\* The accepted mount() that was the last to start before entry i.
LastMount(i) == CHOOSE m \in 1..i : IsMount(m) /\ \A n \in (m + 1)..i : ~IsMount(n)

\* C27: on a mount() that follows a destroy(), every component instance whose
\* mount hook is invoked was created by that mount() call; no instance left in
\* the registry by an earlier mount (an extension given to the first mount()
\* and not to the second) has its mount hook invoked, nor its destroy hook on
\* the destroy() after it.
C27_OnlyOwnInstancesHooked ==
  \A i \in Idx :
    /\ (IsHook(i, "mount") /\ \E m \in 1..i : IsMount(m) /\ Of(m, log[i].id)
                                                /\ log[m].st = DESTROYED)
         => log[i].gen = log[i].id
    /\ (IsHook(i, "destroy") /\ \E m \in 1..i : IsMount(m) /\ log[m].st = DESTROYED)
         => log[i].gen = log[LastMount(i)].id

\* ------------------------------------------------------------------- C28

\* The postponed destroy() calls that the `ready` emitted at entry r has run.
DeferredRuns(r) ==
  {h \in Idx : /\ log[h].t = "handler"
               /\ log[h].cb = "deferredDestroy"
               /\ log[h].born = r}

\* C28: when destroy() has been called k >= 1 times while the state was
\* CREATED, the `ready` event of the mount() runs the teardown exactly once:
\* of the k postponed calls one tears the slider down (every destroy hook
\* once, `destroy` emitted once) and the others do nothing more.
C28_DeferredTeardownOnce ==
  \A r \in Idx :
    IsEmit(r, EVENT_READY) =>
      /\ Cardinality({h \in DeferredRuns(r) : h < Len(log) /\ IsTeardown(h + 1)}) <= 1
      /\ (DeferredRuns(r) /= {} /\ \E x \in r..Len(log) : IsRet(x, "mount") /\ Of(x, log[r].id))
           => \E h \in DeferredRuns(r) : IsTeardown(h + 1)

\* ------------------------------------------------------------------- C29

\* Entry i of the log l is about handle hid: an update() that went past the
\* guard, or a status event emitted for the handle.
IsAbout(l, i, hid) ==
  \/ l[i].t = "update" /\ l[i].hid = hid
  \/ l[i].t = "emit" /\ l[i].arg = hid

\* Every handle made for the element has been destroyed.
Orphaned(elm) ==
  \A hid \in 1..Len(slideObjects) :
    slideObjects[hid].slide = elm => slideObjects[hid].destroyed

\* C29: a handle that has been destroyed emits no `active`, `inactive`,
\* `visible` or `hidden` and changes no class or attribute of its element
\* when update() or onMove() is called on it later, also by an emit that
\* was in progress when it was destroyed; and the step that destroys a handle
\* emits no status event for it.
C29_DestroyedHandleIsSilent ==
  [][/\ \A hid \in 1..Len(slideObjects') :
          slideObjects'[hid].destroyed => \A i \in Appended : ~IsAbout(log', i, hid)
     /\ \A elm \in DOMAIN classes :
          Orphaned(elm) => classes'[elm] = classes[elm]]_vars

\* The `move` in progress has just called onMove() on a clone's handle that
\* Slides destroyed when the author's `move` handler refreshed the slider,
\* and the `refresh` emit went on to call update() on that handle; the clone
\* would be active.
C29_Witness ==
  /\ log /= <<>>
  /\ LET e == log[Len(log)]
     IN /\ e.t = "handler" /\ e.cb = "Slide.onMove" /\ e.ev = EVENT_MOVE
        /\ slideObjects[e.hid].destroyed
        /\ isClone(slideObjects[e.hid])
        /\ isActive(World, slideObjects[e.hid])
        /\ ~hasClass(World, slideObjects[e.hid].slide, CLASS_ACTIVE)
        /\ \E i \in Idx :
             /\ log[i].t = "handler" /\ log[i].cb = "Slide.update"
             /\ log[i].ev = EVENT_REFRESH /\ log[i].hid = e.hid
             /\ \E j \in 1..(i - 1) :
                  /\ log[j].t = "handler" /\ log[j].cb = "Slides.refresh"
                  /\ log[j].born = log[i].born

\* ------------------------------------------------------------------- C30

\* The element of handle h is marked hidden.
MarkedHidden(cls, h) == ARIA_HIDDEN \in cls[h.slide]

\* C30: when update() has run on a live handle, its slide is marked hidden
\* (aria-hidden) if and only if the slide is not visible and is either not
\* active or a clone: the active real slide is never marked hidden, not even
\* when it is not visible, and a clone that is not visible is always marked
\* hidden, even when it is active.
C30_HiddenIffInvisibleAndInactiveOrClone ==
  [][\A i \in Appended : log'[i].t = "update" =>
       LET h == slideObjects'[log'[i].hid]
       IN MarkedHidden(classes', h)
            <=> (~isVisible(World', h) /\ (~isActive(World', h) \/ isClone(h)))]_vars

\* update() has run on an active real slide that is not visible and is not
\* marked hidden, and on an active clone that is not visible and is marked
\* hidden.
C30_Witness ==
  /\ \E i \in Idx :
       /\ log[i].t = "update"
       /\ LET h == slideObjects[log[i].hid]
          IN /\ ~h.destroyed /\ ~isClone(h)
             /\ isActive(World, h) /\ ~isVisible(World, h)
             /\ ~MarkedHidden(classes, h)
  /\ \E i \in Idx :
       /\ log[i].t = "update"
       /\ LET h == slideObjects[log[i].hid]
          IN /\ ~h.destroyed /\ isClone(h)
             /\ isActive(World, h) /\ ~isVisible(World, h)
             /\ MarkedHidden(classes, h)

====
